---- MODULE Spec2Model ----
(***************************************************************************)
(* Model of the strapi-dify-translations plugin: the in-memory job         *)
(* progress tracker (server/src/services/progress.ts), the dispatch and    *)
(* stream processor (sendToTranslation) and the merge engine               *)
(* (storeTranslation) of the translation service.                          *)
(*                                                                         *)
(* Strings the code inspects character by character (node titles) are      *)
(* sequences of one-character strings; messages built with template        *)
(* literals are tuples <<text, argument, ...>>.                            *)
(***************************************************************************)
EXTENDS Integers, Sequences, FiniteSets, TLC

VARIABLES
  activeJobs,   \* progress.ts: Map jobId -> TranslationJob
  timers,       \* pending setTimeout eviction callbacks, per job id
  pc,           \* position of the background dispatch of sendToTranslation
  curJob,       \* jobId of the closure of the dispatch being tracked
  stream,       \* the response body (all its characters) of the dispatch
  pos,          \* how many characters of the body reader.read() has delivered
  buffer,       \* sendToTranslation: let buffer
  outcome,      \* what the fetch promise / the reader yielded
  ack,          \* value returned (or error thrown) by the last sendToTranslation
  usedIds,      \* job ids generateJobId has already produced
  call,         \* the request in hand: a storeTranslation invocation (inputs, store
                \* traffic, result) or the body of the outbound workflow request
  polled,       \* the last getProgress request and the events it was answered with
  now,          \* minutes elapsed, where the delay of the eviction timers is followed
  due           \* the eviction timers in the order they were set, each with its deadline

vars == <<activeJobs, timers, pc, curJob, stream, pos, buffer, outcome, ack, usedIds, call,
          polled, now, due>>

trackerVars == <<activeJobs, timers>>
dispatchVars == <<pc, curJob, stream, pos, buffer, outcome, ack, usedIds>>
pollVars == <<polled, now, due>>

\* ------------------------------------------------------------------------
\* Bounds of the model
\* ------------------------------------------------------------------------
MaxLines == 2          \* lines in a response body
MaxEvents == 4         \* events held by the registry in the tracker-only specification
MaxTimers == 2         \* pending eviction timers in the tracker-only specification
MaxTime == 6           \* minutes followed by the clock
MaxSince == 2           \* highest `since` a poll asks for
MaxLog == 3             \* events of the job a polling session follows
MaxInFlight == 2        \* poll requests of a session awaiting their response
MaxCallbacks == 3       \* callbacks received by the runId-keyed endpoint

EvictionDelay == 5     \* completeJob: setTimeout(..., 5 * 60 * 1000), in minutes

JobIds == {"job_1", "job_2"}

Undefined == "undefined"      \* the JavaScript value undefined, where a scalar is expected
Null == "null"                \* the JavaScript value null
UndefinedStr == <<"undefined">> \* undefined, where a string (a sequence of characters) is expected

\* ------------------------------------------------------------------------
\* Characters and strings
\* ------------------------------------------------------------------------
Lowers == <<"a", "b", "c", "d", "e", "g", "h", "i", "k", "l", "m", "n", "o", "p", "q", "r",
            "s", "t", "u", "w">>
Uppers == <<"A", "B", "C", "D", "E", "G", "H", "I", "K", "L", "M", "N", "O", "P", "Q", "R",
            "S", "T", "U", "W">>

IndexOf(seq, c) == CHOOSE i \in 1..Len(seq) : seq[i] = c
InSeq(seq, c) == \E i \in 1..Len(seq) : seq[i] = c

\* String.prototype.toLowerCase / toUpperCase, one character
lowerChar(c) == IF InSeq(Uppers, c) THEN Lowers[IndexOf(Uppers, c)] ELSE c
upperChar(c) == IF InSeq(Lowers, c) THEN Uppers[IndexOf(Lowers, c)] ELSE c
toLowerCase(s) == [i \in 1..Len(s) |-> lowerChar(s[i])]

\* the regular expression class \w (letters, digits, underscore)
IsWordChar(c) == InSeq(Lowers, c) \/ InSeq(Uppers, c) \/ c = "_"

\* String.prototype.includes
includes(s, sub) ==
  \E i \in 1..(Len(s) - Len(sub) + 1) : SubSeq(s, i, i + Len(sub) - 1) = sub

S_strapi == <<"s", "t", "r", "a", "p", "i">>
S_start == <<"s", "t", "a", "r", "t">>
S_Start == <<"S", "t", "a", "r", "t">>
S_end == <<"e", "n", "d">>
S_httpRequest == <<"h", "t", "t", "p", "-", "r", "e", "q", "u", "e", "s", "t">>
S_llm == <<"l", "l", "m">>
S_unknown == <<"u", "n", "k", "n", "o", "w", "n">>
S_sendToStrapi == <<"s", "e", "n", "d", "_", "t", "o", "_", "S", "t", "r", "a", "p", "i">>
S_translate == <<"t", "r", "a", "n", "s", "l", "a", "t", "e">>
S_empty == <<>>

\* ------------------------------------------------------------------------
\* Job progress tracker (server/src/services/progress.ts)
\* A registry is the pair of the activeJobs map and the pending eviction
\* timers: reg = [jobs |-> ..., timers |-> ...].
\* ------------------------------------------------------------------------
Plural(n) == IF n > 1 THEN "languages" ELSE "language"

\* the formatting that replaces the underscores and leaves the letters alone
formatNodeNameLowerCase(name) ==
  [i \in 1..Len(name) |-> IF name[i] = "_" THEN " " ELSE name[i]]

\* formatNodeName: underscores become spaces, then the first character of
\* every word (a \w character at a \b boundary) is upper-cased
formatNodeName(name) ==
  LET spaced == [i \in 1..Len(name) |-> IF name[i] = "_" THEN " " ELSE name[i]]
  IN [i \in 1..Len(spaced) |->
        IF IsWordChar(spaced[i]) /\ (i = 1 \/ ~IsWordChar(spaced[i - 1]))
          THEN upperChar(spaced[i])
          ELSE spaced[i]]

\* addEvent numbering an event after the push (index = new length)
addEventIndexAfterPush(reg, jobId, event) ==
  IF jobId \notin DOMAIN reg.jobs THEN reg
  ELSE LET indexedEvent == [k \in DOMAIN event \cup {"index"} |->
                              IF k = "index" THEN Len(reg.jobs[jobId].events) + 1 ELSE event[k]]
       IN [reg EXCEPT !.jobs[jobId].events = Append(@, indexedEvent)]

\* addEvent(jobId, event): no-op for an unknown job, else push with index = events.length
addEvent(reg, jobId, event) ==
  IF jobId \notin DOMAIN reg.jobs THEN reg
  ELSE LET indexedEvent == [k \in DOMAIN event \cup {"index"} |->
                              IF k = "index" THEN Len(reg.jobs[jobId].events) ELSE event[k]]
       IN [reg EXCEPT !.jobs[jobId].events = Append(@, indexedEvent)]

\* an event as the callers of addEvent build it (index is assigned by addEvent)
Event(jobId, type, message, nodeName, current, total) ==
  [jobId |-> jobId, type |-> type, message |-> message, nodeName |-> nodeName,
   current |-> current, total |-> total]

\* getEvents returning the events after sinceIndex only
getEventsAfter(reg, jobId, sinceIndex) ==
  IF jobId \notin DOMAIN reg.jobs THEN <<>>
  ELSE SelectSeq(reg.jobs[jobId].events,
                 LAMBDA e : (IF "index" \in DOMAIN e THEN e.index ELSE 0) > sinceIndex)

\* getEvents(jobId, sinceIndex): filter on (e.index || 0) >= sinceIndex
getEvents(reg, jobId, sinceIndex) ==
  IF jobId \notin DOMAIN reg.jobs THEN <<>>
  ELSE SelectSeq(reg.jobs[jobId].events,
                 LAMBDA e : (IF "index" \in DOMAIN e THEN e.index ELSE 0) >= sinceIndex)

\* startJob keeping the events of a job already registered under the id
startJobKeepingEvents(reg, jobId, targetLocales) ==
  LET job == [id |-> jobId,
              targetLocales |-> targetLocales,
              status |-> "running",
              currentNode |-> UndefinedStr,
              completedLocales |-> 0,
              totalLocales |-> Len(targetLocales),
              events |-> IF jobId \in DOMAIN reg.jobs THEN reg.jobs[jobId].events ELSE <<>>]
      registered == [reg EXCEPT !.jobs =
                       [k \in DOMAIN reg.jobs \cup {jobId} |->
                          IF k = jobId THEN job ELSE reg.jobs[k]]]
  IN addEvent(registered, jobId,
              Event(jobId, "started",
                    <<"Starting translation to", Len(targetLocales), Plural(Len(targetLocales))>>,
                    UndefinedStr, 0, Len(targetLocales)))

\* startJob(jobId, documentId, contentType, targetLocales)
startJob(reg, jobId, targetLocales) ==
  LET job == [id |-> jobId,
              targetLocales |-> targetLocales,
              status |-> "running",
              currentNode |-> UndefinedStr,
              completedLocales |-> 0,
              totalLocales |-> Len(targetLocales),
              events |-> <<>>]
      registered == [reg EXCEPT !.jobs =
                       [k \in DOMAIN reg.jobs \cup {jobId} |->
                          IF k = jobId THEN job ELSE reg.jobs[k]]]
  IN addEvent(registered, jobId,
              Event(jobId, "started",
                    <<"Starting translation to", Len(targetLocales), Plural(Len(targetLocales))>>,
                    UndefinedStr, 0, Len(targetLocales)))

\* nodeStarted registering a job it does not find
nodeStartedRegistering(reg, jobId, nodeType, nodeTitle) ==
  LET known == IF jobId \in DOMAIN reg.jobs THEN reg ELSE startJob(reg, jobId, <<>>)
      formattedName == formatNodeName(IF nodeTitle # <<>> THEN nodeTitle ELSE nodeType)
      named == [known EXCEPT !.jobs[jobId].currentNode = formattedName]
      job == named.jobs[jobId]
  IN IF nodeType # S_start /\ nodeType # S_end
       THEN addEvent(named, jobId,
                     Event(jobId, "node_started", formattedName, formattedName,
                           job.completedLocales, job.totalLocales))
       ELSE named

\* nodeStarted(jobId, nodeType, nodeTitle)
nodeStarted(reg, jobId, nodeType, nodeTitle) ==
  IF jobId \notin DOMAIN reg.jobs THEN reg
  ELSE LET formattedName == formatNodeName(IF nodeTitle # <<>> THEN nodeTitle ELSE nodeType)
           named == [reg EXCEPT !.jobs[jobId].currentNode = formattedName]
           job == named.jobs[jobId]
       IN IF nodeType # S_start /\ nodeType # S_end
            THEN addEvent(named, jobId,
                          Event(jobId, "node_started", formattedName, formattedName,
                                job.completedLocales, job.totalLocales))
            ELSE named

\* nodeFinished counting every node that finishes
nodeFinishedCountingAll(reg, jobId, nodeType, nodeTitle) ==
  IF jobId \notin DOMAIN reg.jobs THEN reg
  ELSE LET counted == [reg EXCEPT !.jobs[jobId].completedLocales = @ + 1]
           job == counted.jobs[jobId]
       IN addEvent(counted, jobId,
                   Event(jobId, "node_finished",
                         <<"Saved translation", job.completedLocales, job.totalLocales>>,
                         formatNodeName(nodeTitle),
                         job.completedLocales, job.totalLocales))

\* nodeFinished(jobId, nodeType, nodeTitle)
nodeFinished(reg, jobId, nodeType, nodeTitle) ==
  IF jobId \notin DOMAIN reg.jobs THEN reg
  ELSE IF nodeType = S_httpRequest /\ includes(toLowerCase(nodeTitle), S_strapi)
    THEN LET counted == [reg EXCEPT !.jobs[jobId].completedLocales = @ + 1]
             job == counted.jobs[jobId]
         IN addEvent(counted, jobId,
                     Event(jobId, "node_finished",
                           <<"Saved translation", job.completedLocales, job.totalLocales>>,
                           formatNodeName(nodeTitle),
                           job.completedLocales, job.totalLocales))
    ELSE reg

\* completeJob(jobId, success, message): message = UndefinedStr when the argument is omitted
completeJob(reg, jobId, success, message) ==
  IF jobId \notin DOMAIN reg.jobs THEN reg
  ELSE LET marked == [reg EXCEPT !.jobs[jobId].status =
                        IF success THEN "completed" ELSE "error"]
           job == marked.jobs[jobId]
           text == IF message # UndefinedStr /\ message # <<>> THEN message
                   ELSE IF success
                     THEN <<"Translation completed for", job.totalLocales, Plural(job.totalLocales)>>
                     ELSE <<"Translation failed">>
           logged == addEvent(marked, jobId,
                              Event(jobId, IF success THEN "completed" ELSE "error", text,
                                    UndefinedStr, job.completedLocales, job.totalLocales))
       IN [logged EXCEPT !.timers[jobId] = @ + 1]

\* the callback of the setTimeout in completeJob: activeJobs.delete(jobId)
evict(reg, jobId) ==
  [jobs |-> [k \in DOMAIN reg.jobs \ {jobId} |-> reg.jobs[k]],
   timers |-> [reg.timers EXCEPT ![jobId] = @ - 1]]

Registry == [jobs |-> activeJobs, timers |-> timers]

\* ------------------------------------------------------------------------
\* The response body of the workflow engine
\* A body is a sequence of tokens: "NL" is the newline character, "event:"
\* and "data:" are the line prefixes, every other token is the text that
\* follows a prefix.  A chunk boundary may fall between any two tokens.
\* ------------------------------------------------------------------------
NL == "NL"

\* the texts that JSON.parse accepts, and the object each one denotes
\* (event = "" / message = <<>> / status = Undefined: the key is absent)
JsonTexts ==
  {"{node_started llm}", "{node_started start}", "{node_started untitled}",
   "{node_finished save}", "{node_finished llm}",
   "{workflow_finished succeeded}", "{workflow_finished failed}",
   "{error boom}", "{status succeeded}"}

Obj(event, nodeType, title, status, message) ==
  [event |-> event, node_type |-> nodeType, title |-> title, status |-> status,
   message |-> message]

JSONparse(text) ==
  CASE text = "{node_started llm}" -> Obj("node_started", S_llm, S_translate, Undefined, <<>>)
    [] text = "{node_started start}" -> Obj("node_started", S_start, S_Start, Undefined, <<>>)
    [] text = "{node_started untitled}" -> Obj("node_started", S_llm, S_empty, Undefined, <<>>)
    [] text = "{node_finished save}" ->
         Obj("node_finished", S_httpRequest, S_sendToStrapi, Undefined, <<>>)
    [] text = "{node_finished llm}" -> Obj("node_finished", S_llm, S_translate, Undefined, <<>>)
    [] text = "{workflow_finished succeeded}" ->
         Obj("workflow_finished", S_empty, S_empty, "succeeded", <<>>)
    [] text = "{workflow_finished failed}" ->
         Obj("workflow_finished", S_empty, S_empty, "failed", <<>>)
    [] text = "{error boom}" -> Obj("error", S_empty, S_empty, Undefined, <<"boom">>)
    [] text = "{status succeeded}" -> Obj("", S_empty, S_empty, "succeeded", <<>>)

\* the lines a body is made of
BodyLines ==
  {<<"event:", e>> : e \in {"workflow_finished"}}
    \cup {<<"data:", t>> : t \in JsonTexts \cup {"not json"}}
    \cup {<<"data:">>}

RECURSIVE Serialize(_)
Serialize(lines) ==
  IF lines = <<>> THEN <<>> ELSE Head(lines) \o <<NL>> \o Serialize(Tail(lines))

RECURSIVE SeqsUpTo(_, _)
SeqsUpTo(S, n) ==
  IF n = 0 THEN {<<>>}
  ELSE LET shorter == SeqsUpTo(S, n - 1)
       IN shorter \cup {Append(q, x) : q \in shorter, x \in S}

\* every body of at most MaxLines lines, with or without the final newline
Bodies ==
  LET whole == {Serialize(ls) : ls \in SeqsUpTo(BodyLines, MaxLines)}
  IN whole \cup {SubSeq(b, 1, Len(b) - 1) : b \in whole \ {<<>>}}

\* ------------------------------------------------------------------------
\* Stream processing in sendToTranslation (the body of the while loop)
\* ------------------------------------------------------------------------
\* String.prototype.split('\n')
RECURSIVE split(_)
split(text) ==
  IF \A i \in 1..Len(text) : text[i] # NL THEN <<text>>
  ELSE LET i == CHOOSE k \in 1..Len(text) :
                  text[k] = NL /\ \A m \in 1..(k - 1) : text[m] # NL
       IN <<SubSeq(text, 1, i - 1)>> \o split(SubSeq(text, i + 1, Len(text)))

startsWith(line, prefix) == Len(line) >= 1 /\ line[1] = prefix

\* trimmedLine.slice(n).trim(): the text after the prefix, "" when there is none
AfterPrefix(line) == IF Len(line) >= 2 THEN line[2] ELSE ""

\* the switch taking every workflow_finished event as a success
dispatchEventAlwaysSucceeded(reg, jobId, eventType, eventData) ==
  LET nodeType == IF eventData.node_type # <<>> THEN eventData.node_type ELSE S_unknown
  IN CASE eventType = "node_started" -> nodeStarted(reg, jobId, nodeType, eventData.title)
       [] eventType = "node_finished" -> nodeFinished(reg, jobId, nodeType, eventData.title)
       [] eventType = "workflow_finished" -> completeJob(reg, jobId, TRUE, UndefinedStr)
       [] eventType = "error" ->
            completeJob(reg, jobId, FALSE,
                        IF eventData.message # <<>> THEN eventData.message
                        ELSE <<"Dify workflow error">>)
       [] OTHER -> reg

\* the switch on eventType, for a data line whose text parsed
dispatchEvent(reg, jobId, eventType, eventData) ==
  LET nodeType == IF eventData.node_type # <<>> THEN eventData.node_type ELSE S_unknown
  IN CASE eventType = "node_started" -> nodeStarted(reg, jobId, nodeType, eventData.title)
       [] eventType = "node_finished" -> nodeFinished(reg, jobId, nodeType, eventData.title)
       [] eventType = "workflow_finished" ->
            LET success == eventData.status = "succeeded"
            IN completeJob(reg, jobId, success,
                           IF success THEN UndefinedStr
                           ELSE <<"Workflow status", eventData.status>>)
       [] eventType = "error" ->
            completeJob(reg, jobId, FALSE,
                        IF eventData.message # <<>> THEN eventData.message
                        ELSE <<"Dify workflow error">>)
       [] OTHER -> reg

\* the loop body marking the job failed when a data line does not parse
processLineFailingOnInvalid(st, jobId, line) ==
  IF startsWith(line, "event:")
    THEN [st EXCEPT !.currentEvent = AfterPrefix(line)]
  ELSE IF startsWith(line, "data:")
    THEN LET dataStr == AfterPrefix(line)
             handled ==
               IF dataStr # "" /\ dataStr \in JsonTexts
                 THEN LET eventData == JSONparse(dataStr)
                          eventType == IF st.currentEvent # "" THEN st.currentEvent
                                       ELSE IF eventData.event # "" THEN eventData.event
                                       ELSE "unknown"
                      IN dispatchEvent(st.reg, jobId, eventType, eventData)
                 ELSE IF dataStr # ""
                   THEN completeJob(st.reg, jobId, FALSE, <<"Invalid JSON">>)
                 ELSE st.reg
         IN [reg |-> handled, currentEvent |-> ""]
  ELSE st

\* one iteration of `for (const line of lines)`: st = [reg, currentEvent]
processLine(st, jobId, line) ==
  IF startsWith(line, "event:")
    THEN [st EXCEPT !.currentEvent = AfterPrefix(line)]
  ELSE IF startsWith(line, "data:")
    THEN LET dataStr == AfterPrefix(line)
             handled ==
               IF dataStr # "" /\ dataStr \in JsonTexts
                 THEN LET eventData == JSONparse(dataStr)
                          eventType == IF st.currentEvent # "" THEN st.currentEvent
                                       ELSE IF eventData.event # "" THEN eventData.event
                                       ELSE "unknown"
                      IN dispatchEvent(st.reg, jobId, eventType, eventData)
                 ELSE st.reg
         IN [reg |-> handled, currentEvent |-> ""]
  ELSE st

\* the loop leaving the remaining lines of the chunk unread after an event of
\* a type the switch has no case for
RECURSIVE processLinesStoppingAtUnknown(_, _, _)
processLinesStoppingAtUnknown(st, jobId, lines) ==
  IF lines = <<>> THEN st
  ELSE LET line == Head(lines)
           dataStr == AfterPrefix(line)
           eventType == IF st.currentEvent # "" THEN st.currentEvent
                        ELSE IF JSONparse(dataStr).event # "" THEN JSONparse(dataStr).event
                        ELSE "unknown"
           unhandled == /\ startsWith(line, "data:")
                        /\ dataStr \in JsonTexts
                        /\ eventType \notin {"node_started", "node_finished",
                                              "workflow_finished", "error"}
       IN IF unhandled THEN [st EXCEPT !.currentEvent = ""]
          ELSE processLinesStoppingAtUnknown(processLine(st, jobId, line), jobId, Tail(lines))

\* `for (const line of lines)`
RECURSIVE processLines(_, _, _)
processLines(st, jobId, lines) ==
  IF lines = <<>> THEN st
  ELSE processLines(processLine(st, jobId, Head(lines)), jobId, Tail(lines))

\* the state a chunk starts processing its lines with: `let currentEvent = ''`
ChunkStart(reg) == [reg |-> reg, currentEvent |-> ""]

\* one iteration of `while (true)` after a successful read: result = [reg, buffer]
processChunk(reg, jobId, buf, chunk) ==
  LET parts == split(buf \o chunk)
      lines == SubSeq(parts, 1, Len(parts) - 1)
      after == processLines(ChunkStart(reg), jobId, lines)
  IN [reg |-> after.reg, buffer |-> parts[Len(parts)]]

\* ------------------------------------------------------------------------
\* Merge engine: JavaScript values, documents and schemas
\* A name (attribute, field path, callback key) is a sequence of tokens in
\* which "." and "_" are tokens of their own: seo.title is <<"seo", ".", "title">>.
\* ------------------------------------------------------------------------
JUndef == [undefined |-> TRUE]
JNull == [null |-> TRUE]
Str(text) == [str |-> text]
Ref(r) == [ref |-> r]            \* a reference to an object of the heap
Arr(ids) == [arr |-> ids]        \* a to-many relation: array of {id, documentId}
One(id) == [one |-> id]          \* a to-one relation: one {id, documentId}
Connect(ids) == [connect |-> ids]

IsRef(v) == DOMAIN v = {"ref"}
IsArr(v) == DOMAIN v = {"arr"}
IsOne(v) == DOMAIN v = {"one"}
Nullish(v) == v = JUndef \/ v = JNull           \* what ?? and `=== undefined/null` test
Truthy(v) == ~Nullish(v) /\ v # Str("")         \* objects and arrays are truthy
Or(a, b) == IF Truthy(a) THEN a ELSE b          \* a || b
Coalesce(a, b) == IF Nullish(a) THEN b ELSE a   \* a ?? b

\* property access on a map from names to values
Get(obj, name) == IF name \in DOMAIN obj THEN obj[name] ELSE JUndef
Put(obj, name, value) ==
  [k \in DOMAIN obj \cup {name} |-> IF k = name THEN value ELSE obj[k]]

N_title == <<"title">>
N_seo == <<"seo">>
N_meta == <<"meta">>
N_desc == <<"desc">>
N_author == <<"author">>
N_category == <<"category">>
N_hero == <<"hero">>
N_publishedAt == <<"publishedAt">>
P_publishedAtX == <<"publishedAt", ".", "x">>
N_blocks == <<"blocks">>
P_seoTitle == <<"seo", ".", "title">>
P_seoDesc == <<"seo", ".", "desc">>
P_metaTitle == <<"meta", ".", "title">>

Attr(name, type, target, private, localized) ==
  [name |-> name, type |-> type, target |-> target, private |-> private,
   localized |-> localized]

\* strapi.contentTypes: the attributes of each content type, in declaration
\* order, and whether the type itself is localized (pluginOptions.i18n.localized)
ContentTypes ==
  [page |-> [localized |-> TRUE,
             attributes |-> <<Attr(N_title, "string", "", FALSE, TRUE),
                              Attr(N_seo, "component", "", FALSE, TRUE),
                              Attr(N_meta, "component", "", FALSE, FALSE),
                              Attr(<<"publishedAt">>, "datetime", "", FALSE, TRUE)>>],
   post |-> [localized |-> TRUE,
             attributes |-> <<Attr(N_title, "string", "", FALSE, TRUE),
                              Attr(N_author, "relation", "author", FALSE, TRUE),
                              Attr(N_category, "relation", "category", FALSE, TRUE)>>],
   landing |-> [localized |-> TRUE,
                attributes |-> <<Attr(N_title, "string", "", FALSE, TRUE),
                                 Attr(N_hero, "component", "", FALSE, TRUE),
                                 Attr(N_blocks, "dynamiczone", "", FALSE, TRUE)>>],
   author |-> [localized |-> TRUE,
               attributes |-> <<Attr(<<"name">>, "string", "", FALSE, TRUE)>>],
   category |-> [localized |-> FALSE,
                 attributes |-> <<Attr(<<"name">>, "string", "", FALSE, TRUE)>>]]

SchemaOf(contentType) ==
  IF contentType \in DOMAIN ContentTypes THEN ContentTypes[contentType].attributes ELSE <<>>

AttrNames(attrs) == [i \in 1..Len(attrs) |-> attrs[i].name]
Contains(q, x) == \E i \in 1..Len(q) : q[i] = x     \* Array.prototype.includes

\* isNestedField: fieldPath.includes('.')
isNestedField(fieldPath) == Contains(fieldPath, ".")

\* fieldPath.split('.')
RECURSIVE splitDots(_)
splitDots(name) ==
  IF ~Contains(name, ".") THEN <<name>>
  ELSE LET i == CHOOSE k \in 1..Len(name) :
                  name[k] = "." /\ \A m \in 1..(k - 1) : name[m] # "."
       IN <<SubSeq(name, 1, i - 1)>> \o splitDots(SubSeq(name, i + 1, Len(name)))

NotParsed == [component |-> <<>>, field |-> <<>>, ok |-> FALSE]   \* parseNestedField's null

\* parseNestedField taking the first two parts of a longer path
parseNestedFieldFirstTwo(fieldPath) ==
  LET parts == splitDots(fieldPath)
  IN IF Len(parts) < 2 THEN NotParsed
     ELSE [component |-> parts[1], field |-> parts[2], ok |-> TRUE]

\* parseNestedField: null unless the path has exactly two parts
parseNestedField(fieldPath) ==
  LET parts == splitDots(fieldPath)
  IN IF Len(parts) # 2 THEN NotParsed
     ELSE [component |-> parts[1], field |-> parts[2], ok |-> TRUE]

\* toDifyFieldName: fieldPath.replace('.', '_') replaces the first dot only
toDifyFieldName(fieldPath) ==
  IF ~Contains(fieldPath, ".") THEN fieldPath
  ELSE LET i == CHOOSE k \in 1..Len(fieldPath) :
                  fieldPath[k] = "." /\ \A m \in 1..(k - 1) : fieldPath[m] # "."
       IN [k \in 1..Len(fieldPath) |-> IF k = i THEN "_" ELSE fieldPath[k]]

\* fromDifyFieldName: the first configured field whose encoding is the key, else the key
fromDifyFieldName(difyFieldName, translatableFields) ==
  IF \E i \in 1..Len(translatableFields) : toDifyFieldName(translatableFields[i]) = difyFieldName
    THEN translatableFields[CHOOSE i \in 1..Len(translatableFields) :
           /\ toDifyFieldName(translatableFields[i]) = difyFieldName
           /\ \A m \in 1..(i - 1) : toDifyFieldName(translatableFields[m]) # difyFieldName]
    ELSE difyFieldName

\* fieldExistsInSchema
fieldExistsInSchema(contentType, fieldName) ==
  /\ contentType \in DOMAIN ContentTypes
  /\ Contains(AttrNames(SchemaOf(contentType)), fieldName)

\* getRelationFields
getRelationFields(contentType) ==
  AttrNames(SelectSeq(SchemaOf(contentType), LAMBDA a : a.type = "relation"))

\* getComponentFields: components and dynamic zones
getComponentFields(contentType) ==
  [components |-> AttrNames(SelectSeq(SchemaOf(contentType), LAMBDA a : a.type = "component")),
   dynamicZones |-> AttrNames(SelectSeq(SchemaOf(contentType), LAMBDA a : a.type = "dynamiczone"))]

ExcludedFields ==
  {<<"id">>, <<"documentId">>, <<"createdAt">>, <<"updatedAt">>, <<"publishedAt">>,
   <<"createdBy">>, <<"updatedBy">>, <<"locale">>, <<"localizations">>}

\* getLocalizableFields
getLocalizableFields(contentType) ==
  AttrNames(SelectSeq(SchemaOf(contentType),
                      LAMBDA a : a.name \notin ExcludedFields /\ ~a.private /\ a.localized))

\* isContentTypeLocalized
isContentTypeLocalized(contentType) ==
  contentType \in DOMAIN ContentTypes /\ ContentTypes[contentType].localized

\* getRelationTarget: "" stands for null
getRelationTarget(contentType, fieldName) ==
  LET hits == SelectSeq(SchemaOf(contentType),
                        LAMBDA a : a.name = fieldName /\ a.type = "relation" /\ a.target # "")
  IN IF hits = <<>> THEN "" ELSE hits[1].target

\* extractRelationIds
extractRelationIds(value) ==
  IF ~Truthy(value) THEN <<>>
  ELSE IF IsArr(value) THEN value.arr
  ELSE IF IsOne(value) THEN <<value.one>>
  ELSE <<>>

\* formatRelationForUpdate: JNull stands for null
formatRelationForUpdate(value) ==
  IF ~Truthy(value) THEN JNull
  ELSE IF extractRelationIds(value) = <<>> THEN JNull
  ELSE Connect(extractRelationIds(value))

\* getNestedValue(document, fieldPath); heap holds the objects documents refer to
getNestedValue(document, heap, fieldPath) ==
  LET parsed == parseNestedField(fieldPath)
  IN IF ~parsed.ok THEN JUndef
     ELSE LET componentValue == Get(document, parsed.component)
          IN IF ~IsRef(componentValue) THEN JUndef
             ELSE Get(heap[componentValue.ref], parsed.field)

CopyOf(component) == <<"copy", component>>     \* the object a spread or {} creates

\* setNestedValue(data, fieldPath, value, existingComponent): st = [data, heap]
setNestedValue(st, fieldPath, value, existingComponent) ==
  LET parsed == parseNestedField(fieldPath)
  IN IF ~parsed.ok THEN st
     ELSE LET created ==
                IF ~Truthy(Get(st.data, parsed.component))
                  THEN [data |-> Put(st.data, parsed.component, Ref(CopyOf(parsed.component))),
                        heap |-> Put(st.heap, CopyOf(parsed.component),
                                     IF IsRef(existingComponent)
                                       THEN st.heap[existingComponent.ref]
                                       ELSE <<>>)]
                  ELSE st
              target == created.data[parsed.component].ref
          IN [created EXCEPT !.heap[target] = Put(@, parsed.field, value)]

\* an object whose key order matters, as a sequence of entries
Entry(key, value) == [key |-> key, value |-> value]
HasKey(entries, key) == \E i \in 1..Len(entries) : entries[i].key = key
Lookup(entries, key) ==
  IF HasKey(entries, key)
    THEN entries[CHOOSE i \in 1..Len(entries) : entries[i].key = key].value
    ELSE JUndef
Assign(entries, key, value) ==
  IF HasKey(entries, key)
    THEN [i \in 1..Len(entries) |->
            IF entries[i].key = key THEN Entry(key, value) ELSE entries[i]]
    ELSE Append(entries, Entry(key, value))

\* objects, fetched documents and the heap of the objects they refer to
Obj2(k1, v1, k2, v2) == [k \in {k1, k2} |-> IF k = k1 THEN v1 ELSE v2]
Obj1(k1, v1) == [k \in {k1} |-> v1]
Some(object) == [obj |-> object]

\* a fetched document: plain maps attribute names to values, comps maps
\* component attributes to Some(object) or JNull; the objects go to the heap
\* under the reference <<owner, attribute>>
DocOf(owner, plain, comps) ==
  [doc |-> [k \in DOMAIN plain \cup DOMAIN comps |->
              IF k \in DOMAIN plain THEN plain[k]
              ELSE IF comps[k] = JNull THEN JNull ELSE Ref(<<owner, k>>)]]
HeapOf(owner, comps) ==
  [r \in {<<owner, k>> : k \in {c \in DOMAIN comps : comps[c] # JNull}} |-> comps[r[2]].obj]
Merge2(f, g) == [k \in DOMAIN f \cup DOMAIN g |-> IF k \in DOMAIN f THEN f[k] ELSE g[k]]

\* ------------------------------------------------------------------------
\* getContentForTranslation
\* ------------------------------------------------------------------------
SourceLocale == "en"                          \* settings.sourceLocale

\* lines 175-188: the components the source document is fetched with
componentsToPopulate(contentType, translatableFields) ==
  {parseNestedField(translatableFields[i]).component :
     i \in {k \in 1..Len(translatableFields) :
              /\ isNestedField(translatableFields[k])
              /\ parseNestedField(translatableFields[k]).ok
              /\ fieldExistsInSchema(contentType,
                                     parseNestedField(translatableFields[k]).component)}}

\* strapi.documents(contentType).findOne({documentId, locale, populate}):
\* components, dynamic zones and relations are part of the result only when
\* they are populated (stored is JNull when there is no such document)
findOne(contentType, stored, populate) ==
  IF stored = JNull THEN JNull
  ELSE [doc |-> [k \in {a \in DOMAIN stored.doc :
                          \/ a \in populate
                          \/ ~Contains(getRelationFields(contentType), a)
                             /\ ~Contains(getComponentFields(contentType).components, a)
                             /\ ~Contains(getComponentFields(contentType).dynamicZones, a)} |->
                   stored.doc[k]]]

\* the extraction loop sending the empty string like any other string
RECURSIVE extractFieldsKeepingEmpty(_, _, _, _, _)
extractFieldsKeepingEmpty(acc, contentType, document, heap, fields) ==
  IF fields = <<>> THEN acc
  ELSE LET field == Head(fields)
           parsed == parseNestedField(field)
           skipped == isNestedField(field)
                        /\ (~parsed.ok \/ ~fieldExistsInSchema(contentType, parsed.component))
           value == IF isNestedField(field) THEN getNestedValue(document, heap, field)
                    ELSE Get(document, field)
           next == IF ~skipped /\ ~Nullish(value)
                     THEN Assign(acc, toDifyFieldName(field), value)
                     ELSE acc
       IN extractFieldsKeepingEmpty(next, contentType, document, heap, Tail(fields))

\* lines 200-218: the non-empty values of the configured fields, under their
\* external names, in configuration order
RECURSIVE extractFields(_, _, _, _, _)
extractFields(acc, contentType, document, heap, fields) ==
  IF fields = <<>> THEN acc
  ELSE LET field == Head(fields)
           parsed == parseNestedField(field)
           skipped == isNestedField(field)
                        /\ (~parsed.ok \/ ~fieldExistsInSchema(contentType, parsed.component))
           value == IF isNestedField(field) THEN getNestedValue(document, heap, field)
                    ELSE Get(document, field)
           next == IF ~skipped /\ ~Nullish(value) /\ value # Str("")
                     THEN Assign(acc, toDifyFieldName(field), value)
                     ELSE acc
       IN extractFields(next, contentType, document, heap, Tail(fields))

ContentThrown(message) == [kind |-> "thrown", message |-> message, fields |-> <<>>]
ContentFields(fields) == [kind |-> "fields", message |-> <<>>, fields |-> fields]

\* getContentForTranslation(documentId, contentType): translatableFields is
\* the plugin configuration, stored the source-locale document of the store
getContentForTranslation(contentType, translatableFields, stored, heap) ==
  IF Len(translatableFields) = 0
    THEN ContentThrown(<<"No translatable fields configured">>)
  ELSE LET document == findOne(contentType, stored,
                               componentsToPopulate(contentType, translatableFields))
       IN IF document = JNull
            THEN ContentThrown(<<"Document not found for locale", SourceLocale>>)
            ELSE ContentFields(extractFields(<<>>, contentType, document.doc, heap,
                                             translatableFields))

\* ------------------------------------------------------------------------
\* sendToTranslation: validation, registration and the detached request
\* ------------------------------------------------------------------------
SelectedChoices == {<<>>, <<"fr">>, <<"en">>, <<"en", "fr">>, <<"fr", "de">>}
RegistryChoices == {<<"en">>, <<"en", "fr">>} \* codes getAvailableLocales() may return
Endpoints == {"", "https://dify"}             \* settings.difyEndpoint, "" when not set
TranslateConfigs == {<<>>, <<N_title, P_seoTitle>>}

\* the source-locale document of a translate request: none, one with content,
\* one whose configured fields are all empty
TranslateSources ==
  {[stored |-> JNull, heap |-> <<>>],
   [stored |-> DocOf("source", Obj1(N_title, Str("Hello")),
                     Obj2(N_seo, Some(Obj1(N_title, Str("SEO Hello"))), N_meta, JNull)),
    heap |-> HeapOf("source", Obj2(N_seo, Some(Obj1(N_title, Str("SEO Hello"))), N_meta, JNull))],
   [stored |-> DocOf("source", Obj1(N_title, Str("")),
                     Obj2(N_seo, Some(Obj1(N_title, JNull)), N_meta, JNull)),
    heap |-> HeapOf("source", Obj2(N_seo, Some(Obj1(N_title, JNull)), N_meta, JNull))]}

ContentOf(translatableFields, source) ==
  getContentForTranslation("page", translatableFields, source.stored, source.heap)
HttpErrors == {500}                           \* a non-success response.status

NoAck == [kind |-> "none", success |-> FALSE, jobId |-> "", message |-> <<>>]
Thrown(message) == [kind |-> "thrown", success |-> FALSE, jobId |-> "", message |-> message]
Returned(jobId, n) ==
  [kind |-> "returned", success |-> TRUE, jobId |-> jobId,
   message |-> <<"Translation request sent for", n>>]

\* lines 267-277: the body of the outbound request (document_id, callback_url
\* and user are the same in every request)
payload(fields, targetLocales) ==
  [phase |-> "request",
   inputs |-> [fields |-> fields, source_locale |-> SourceLocale,
               target_locales |-> targetLocales],
   response_mode |-> "streaming"]

\* the target locales of a request, the registered codes being taken as they are
resolveTargetLocalesRegistryUnfiltered(selectedLocales, allLocales) ==
  IF Len(selectedLocales) > 0
    THEN SelectSeq(selectedLocales, LAMBDA locale : locale # SourceLocale)
    ELSE allLocales

\* the target locales of a request, a selection being taken as it is
resolveTargetLocalesUnfiltered(selectedLocales, allLocales) ==
  IF Len(selectedLocales) > 0
    THEN selectedLocales
    ELSE SelectSeq(allLocales, LAMBDA code : code # SourceLocale)

\* lines 245-253: the target locales of a request
resolveTargetLocales(selectedLocales, allLocales) ==
  IF Len(selectedLocales) > 0
    THEN SelectSeq(selectedLocales, LAMBDA locale : locale # SourceLocale)
    ELSE SelectSeq(allLocales, LAMBDA code : code # SourceLocale)

\* generateJobId: a time stamp and a random suffix, i.e. an identifier that
\* no earlier call has returned
generateJobId(used) == CHOOSE j \in JobIds : j \notin used

\* sendToTranslation starting the request and returning without having
\* registered the job
SendToTranslationUnregistered(difyEndpoint, selectedLocales, allLocales, content) ==
  /\ pc = "idle"
  /\ usedIds # JobIds
  /\ LET targetLocales == resolveTargetLocales(selectedLocales, allLocales)
         jobId == generateJobId(usedIds)
     IN IF difyEndpoint = ""
          THEN /\ ack' = Thrown(<<"Dify endpoint is not configured">>)
               /\ UNCHANGED <<pc, curJob, usedIds, call>>
        ELSE IF Len(targetLocales) = 0
          THEN /\ ack' = Thrown(<<"No target locales available for translation">>)
               /\ UNCHANGED <<pc, curJob, usedIds, call>>
        ELSE IF content.kind = "thrown"
          THEN /\ ack' = Thrown(content.message)
               /\ UNCHANGED <<pc, curJob, usedIds, call>>
        ELSE IF Len(content.fields) = 0
          THEN /\ ack' = Thrown(<<"No translatable content found">>)
               /\ UNCHANGED <<pc, curJob, usedIds, call>>
        ELSE /\ usedIds' = usedIds \cup {jobId}
             /\ curJob' = jobId
             /\ pc' = "fetching"
             /\ call' = payload(content.fields, targetLocales)
             /\ ack' = Returned(jobId, Len(targetLocales))
  /\ UNCHANGED <<activeJobs, timers, stream, pos, buffer, outcome, pollVars>>

\* sendToTranslation awaiting the request: nothing is returned when the request starts
SendToTranslationAwaitingFetch(difyEndpoint, selectedLocales, allLocales, content) ==
  /\ pc = "idle"
  /\ usedIds # JobIds
  /\ difyEndpoint # ""
  /\ content.kind = "fields"
  /\ Len(content.fields) > 0
  /\ LET targetLocales == resolveTargetLocales(selectedLocales, allLocales)
         jobId == generateJobId(usedIds)
         reg == startJob([jobs |-> activeJobs, timers |-> timers], jobId, targetLocales)
     IN /\ Len(targetLocales) > 0
        /\ activeJobs' = reg.jobs
        /\ timers' = reg.timers
        /\ usedIds' = usedIds \cup {jobId}
        /\ curJob' = jobId
        /\ pc' = "fetching"
        /\ ack' = ack
  /\ UNCHANGED <<stream, pos, buffer, outcome, call, pollVars>>

\* sendToTranslation registering the job before it extracts the content
SendToTranslationRegisteringFirst(difyEndpoint, selectedLocales, allLocales, content) ==
  /\ pc = "idle"
  /\ usedIds # JobIds
  /\ LET targetLocales == resolveTargetLocales(selectedLocales, allLocales)
         jobId == generateJobId(usedIds)
         reg == startJob(Registry, jobId, targetLocales)
     IN IF difyEndpoint = ""
          THEN /\ ack' = Thrown(<<"Dify endpoint is not configured">>)
               /\ UNCHANGED <<activeJobs, timers, pc, curJob, usedIds>>
        ELSE IF Len(targetLocales) = 0
          THEN /\ ack' = Thrown(<<"No target locales available for translation">>)
               /\ UNCHANGED <<activeJobs, timers, pc, curJob, usedIds>>
        ELSE /\ activeJobs' = reg.jobs
             /\ timers' = reg.timers
             /\ usedIds' = usedIds \cup {jobId}
             /\ IF content.kind = "thrown"
                  THEN /\ ack' = Thrown(content.message)
                       /\ UNCHANGED <<pc, curJob>>
                ELSE IF Len(content.fields) = 0
                  THEN /\ ack' = Thrown(<<"No translatable content found">>)
                       /\ UNCHANGED <<pc, curJob>>
                ELSE /\ curJob' = jobId
                     /\ pc' = "fetching"
                     /\ ack' = Returned(jobId, Len(targetLocales))
  /\ UNCHANGED <<stream, pos, buffer, outcome, call, pollVars>>

\* sendToTranslation up to its return statement.  difyEndpoint, selectedLocales,
\* the locale registry and the outcome of getContentForTranslation are inputs.
SendToTranslation(difyEndpoint, selectedLocales, allLocales, content) ==
  /\ pc = "idle"
  /\ usedIds # JobIds
  /\ LET targetLocales == resolveTargetLocales(selectedLocales, allLocales)
         jobId == generateJobId(usedIds)
     IN IF difyEndpoint = ""
          THEN /\ ack' = Thrown(<<"Dify endpoint is not configured">>)
               /\ UNCHANGED <<activeJobs, timers, pc, curJob, usedIds, call>>
        ELSE IF Len(targetLocales) = 0
          THEN /\ ack' = Thrown(<<"No target locales available for translation">>)
               /\ UNCHANGED <<activeJobs, timers, pc, curJob, usedIds, call>>
        ELSE IF content.kind = "thrown"
          THEN /\ ack' = Thrown(content.message)
               /\ UNCHANGED <<activeJobs, timers, pc, curJob, usedIds, call>>
        ELSE IF Len(content.fields) = 0
          THEN /\ ack' = Thrown(<<"No translatable content found">>)
               /\ UNCHANGED <<activeJobs, timers, pc, curJob, usedIds, call>>
        ELSE LET reg == startJob(Registry, jobId, targetLocales)
             IN /\ activeJobs' = reg.jobs
                /\ timers' = reg.timers
                /\ usedIds' = usedIds \cup {jobId}
                /\ curJob' = jobId
                /\ pc' = "fetching"
                /\ call' = payload(content.fields, targetLocales)
                /\ ack' = Returned(jobId, Len(targetLocales))
  /\ UNCHANGED <<stream, pos, buffer, outcome, pollVars>>

\* applies a registry computed by the tracker operators
SetRegistry(reg) ==
  /\ activeJobs' = reg.jobs
  /\ timers' = reg.timers

\* .then: `if (!response.ok)`; textOk is whether `await response.text()` resolves
\* (when it rejects the .catch handler runs instead)
FetchNotOk(status, textOk) ==
  /\ pc = "fetching"
  /\ SetRegistry(completeJob(Registry, curJob, FALSE,
                             IF textOk THEN <<"Dify API error", status>>
                             ELSE <<"Failed to connect to Dify", "text">>))
  /\ pc' = "done"
  /\ outcome' = "not_ok"
  /\ UNCHANGED <<curJob, stream, pos, buffer, ack, usedIds, call, pollVars>>

\* `if (!response.body) return` without completing the job
FetchNoBodySilent ==
  /\ pc = "fetching"
  /\ pc' = "done"
  /\ outcome' = "no_body"
  /\ UNCHANGED <<activeJobs, timers, curJob, stream, pos, buffer, ack, usedIds, call, pollVars>>

\* .then: `if (!response.body)`
FetchNoBody ==
  /\ pc = "fetching"
  /\ SetRegistry(completeJob(Registry, curJob, FALSE, <<"Dify response has no body">>))
  /\ pc' = "done"
  /\ outcome' = "no_body"
  /\ UNCHANGED <<curJob, stream, pos, buffer, ack, usedIds, call, pollVars>>

\* .catch: the fetch promise is rejected
FetchRejected ==
  /\ pc = "fetching"
  /\ SetRegistry(completeJob(Registry, curJob, FALSE, <<"Failed to connect to Dify", "network">>))
  /\ pc' = "done"
  /\ outcome' = "rejected"
  /\ UNCHANGED <<curJob, stream, pos, buffer, ack, usedIds, call, pollVars>>

\* .then: a successful response with a body; body is what the server will send
FetchOk(body) ==
  /\ pc = "fetching"
  /\ pc' = "reading"
  /\ stream' = body
  /\ pos' = 0
  /\ buffer' = <<>>
  /\ outcome' = "streaming"
  /\ UNCHANGED <<activeJobs, timers, curJob, ack, usedIds, call, pollVars>>

\* reader.read() resolves with the next n characters of the body
ReadChunk(n) ==
  /\ pc = "reading"
  /\ pos + n <= Len(stream)
  /\ LET r == processChunk(Registry, curJob, buffer, SubSeq(stream, pos + 1, pos + n))
     IN /\ SetRegistry(r.reg)
        /\ buffer' = r.buffer
  /\ pos' = pos + n
  /\ UNCHANGED <<pc, curJob, stream, outcome, ack, usedIds, call, pollVars>>

\* reader.read() resolves with done = true
ReadDone ==
  /\ pc = "reading"
  /\ pos = Len(stream)
  /\ pc' = "done"
  /\ outcome' = "stream_end"
  /\ UNCHANGED <<activeJobs, timers, curJob, stream, pos, buffer, ack, usedIds, call, pollVars>>

\* reader.read() rejects: catch (streamError)
ReadError ==
  /\ pc = "reading"
  /\ SetRegistry(completeJob(Registry, curJob, FALSE, <<"Stream error", "read">>))
  /\ pc' = "done"
  /\ outcome' = "stream_error"
  /\ UNCHANGED <<curJob, stream, pos, buffer, ack, usedIds, call, pollVars>>

\* a timer set by completeJob fires
Evict(jobId) ==
  /\ timers[jobId] > 0
  /\ SetRegistry(evict(Registry, jobId))
  /\ UNCHANGED <<dispatchVars, call, pollVars>>

NoCall == [phase |-> "none"]

InitTracker ==
  /\ activeJobs = <<>>
  /\ timers = [j \in JobIds |-> 0]

InitDispatch ==
  /\ pc = "idle"
  /\ curJob = ""
  /\ stream = <<>>
  /\ pos = 0
  /\ buffer = <<>>
  /\ outcome = "none"
  /\ ack = NoAck
  /\ usedIds = {}

NoPoll == [jobId |-> "", sinceIndex |-> 0, events |-> <<>>]

InitPoll ==
  /\ polled = NoPoll
  /\ now = 0
  /\ due = <<>>

Init ==
  /\ InitTracker
  /\ InitDispatch
  /\ InitPoll
  /\ call = NoCall

Send ==
  \E e \in Endpoints, sel \in SelectedChoices, all \in RegistryChoices,
     cfg \in TranslateConfigs, src \in TranslateSources :
    SendToTranslation(e, sel, all, ContentOf(cfg, src))
NotOk == \E st \in HttpErrors, t \in BOOLEAN : FetchNotOk(st, t)
Ok == \E b \in Bodies : FetchOk(b)
Read == \E n \in 1..(3 * MaxLines) : ReadChunk(n)
Timeout == \E j \in JobIds : Evict(j)

Next ==
  \/ Send
  \/ NotOk
  \/ FetchNoBody
  \/ FetchRejected
  \/ Ok
  \/ Read
  \/ ReadDone
  \/ ReadError
  \/ Timeout

Spec == Init /\ [][Next]_vars

\* ------------------------------------------------------------------------
\* storeTranslation
\* An object whose key order matters (Object.entries) is a sequence of
\* [key, value] entries.
\* ------------------------------------------------------------------------
\* the partition letting a key that matches no configured field through
RECURSIVE partitionFieldsPassingUnmatched(_, _, _)
partitionFieldsPassingUnmatched(acc, fields, translatableFields) ==
  IF fields = <<>> THEN acc
  ELSE LET internalKey == fromDifyFieldName(Head(fields).key, translatableFields)
           value == Head(fields).value
           next == IF isNestedField(internalKey)
                     THEN [acc EXCEPT !.nested = Assign(@, internalKey, value)]
                     ELSE [acc EXCEPT !.regular = Assign(@, internalKey, value)]
       IN partitionFieldsPassingUnmatched(next, Tail(fields), translatableFields)

\* lines 606-619: the callback's fields decoded and split: acc = [regular, nested]
RECURSIVE partitionFields(_, _, _)
partitionFields(acc, fields, translatableFields) ==
  IF fields = <<>> THEN acc
  ELSE LET internalKey == fromDifyFieldName(Head(fields).key, translatableFields)
           value == Head(fields).value
           next ==
             IF Len(translatableFields) = 0 \/ Contains(translatableFields, internalKey)
               THEN IF isNestedField(internalKey)
                      THEN [acc EXCEPT !.nested = Assign(@, internalKey, value)]
                      ELSE [acc EXCEPT !.regular = Assign(@, internalKey, value)]
               ELSE acc
       IN partitionFields(next, Tail(fields), translatableFields)

\* filterExistingRelations keeping a related document whose probe raised
RECURSIVE filterExistingRelationsKeepRaised(_, _, _, _, _)
filterExistingRelationsKeepRaised(r, relationTarget, documentIds, locale, probe) ==
  IF documentIds = <<>> THEN r
  ELSE LET docId == Head(documentIds)
           read == [type |-> relationTarget, documentId |-> docId, locale |-> locale]
           next == [ids |-> IF probe[docId] # "missing" THEN Append(r.ids, docId) ELSE r.ids,
                    reads |-> Append(r.reads, read)]
       IN filterExistingRelationsKeepRaised(next, relationTarget, Tail(documentIds), locale, probe)

\* filterExistingRelations: probe says, for each related document, whether the
\* findOne in the target locale finds it, finds nothing or raises;
\* r = [ids |-> existingIds, reads |-> the findOne calls made]
RECURSIVE filterExistingRelations(_, _, _, _, _)
filterExistingRelations(r, relationTarget, documentIds, locale, probe) ==
  IF documentIds = <<>> THEN r
  ELSE LET docId == Head(documentIds)
           read == [type |-> relationTarget, documentId |-> docId, locale |-> locale]
           next == [ids |-> IF probe[docId] = "found" THEN Append(r.ids, docId) ELSE r.ids,
                    reads |-> Append(r.reads, read)]
       IN filterExistingRelations(next, relationTarget, Tail(documentIds), locale, probe)

\* a plain field taking the existing value before the translated one
plainValueExistingFirst(translatedValue, existingValue, sourceValue) ==
  IF ~Nullish(existingValue) THEN existingValue
  ELSE IF ~Nullish(translatedValue) THEN translatedValue
  ELSE IF ~Nullish(sourceValue) THEN sourceValue
  ELSE JUndef

\* lines 677-683: the value a plain field is written with, JUndef when it is not written
plainValue(translatedValue, existingValue, sourceValue) ==
  IF ~Nullish(translatedValue) THEN translatedValue
  ELSE IF ~Nullish(existingValue) THEN existingValue
  ELSE IF ~Nullish(sourceValue) THEN sourceValue
  ELSE JUndef

\* a component taking a translated top-level value when the callback has one
componentValueTranslatedFirst(translatedValue, existingValue, sourceValue) ==
  Coalesce(translatedValue, Coalesce(existingValue, sourceValue))

\* line 672: existingValue ?? sourceValue; the translated value is not looked at
componentValue(translatedValue, existingValue, sourceValue) ==
  Coalesce(existingValue, sourceValue)

\* lines 644-685, one iteration: st = [data, heap, reads]
mergeField(st, in, regular, fieldName) ==
  LET sourceValue == Get(in.source.doc, fieldName)
      translatedValue == Lookup(regular, fieldName)
      existingValue == IF in.existing = JNull THEN JUndef ELSE Get(in.existing.doc, fieldName)
      components == getComponentFields(in.contentType)
  IN IF Contains(getRelationFields(in.contentType), fieldName)
       THEN LET relationTarget == getRelationTarget(in.contentType, fieldName)
                isTargetLocalized ==
                  IF relationTarget # "" THEN isContentTypeLocalized(relationTarget) ELSE FALSE
                relationValue == Or(existingValue, sourceValue)
            IN IF Truthy(relationValue) /\ relationTarget # ""
                 THEN IF isTargetLocalized
                        THEN LET allIds == extractRelationIds(relationValue)
                                 found == filterExistingRelations(
                                            [ids |-> <<>>, reads |-> st.reads],
                                            relationTarget, allIds, in.locale, in.probe)
                             IN IF Len(found.ids) > 0
                                  THEN [st EXCEPT !.data = Put(@, fieldName, Connect(found.ids)),
                                                  !.reads = found.reads]
                                  ELSE [st EXCEPT !.reads = found.reads]
                        ELSE LET formattedRelation == formatRelationForUpdate(relationValue)
                             IN IF formattedRelation # JNull
                                  THEN [st EXCEPT !.data = Put(@, fieldName, formattedRelation)]
                                  ELSE st
                 ELSE st
     ELSE IF Contains(components.components, fieldName)
             \/ Contains(components.dynamicZones, fieldName)
       THEN LET chosen == componentValue(translatedValue, existingValue, sourceValue)
            IN IF ~Nullish(chosen)
                 THEN [st EXCEPT !.data = Put(@, fieldName, chosen)]
                 ELSE st
     ELSE LET value == plainValue(translatedValue, existingValue, sourceValue)
          IN IF value # JUndef THEN [st EXCEPT !.data = Put(@, fieldName, value)] ELSE st

RECURSIVE mergeFields(_, _, _, _)
mergeFields(st, in, regular, names) ==
  IF names = <<>> THEN st
  ELSE mergeFields(mergeField(st, in, regular, Head(names)), in, regular, Tail(names))

\* mergedData[component] || existingComponent || sourceComponent
baseComponentOf(st, in, component) ==
  Or(Or(Get(st.data, component),
        IF in.existing = JNull THEN JUndef ELSE Get(in.existing.doc, component)),
     Get(in.source.doc, component))

\* lines 687-700, one iteration
mergeTranslatedNested(st, in, entry) ==
  LET parsed == parseNestedField(entry.key)
  IN IF ~parsed.ok \/ ~fieldExistsInSchema(in.contentType, parsed.component) THEN st
     ELSE IF ~Nullish(entry.value)
       THEN LET after == setNestedValue([data |-> st.data, heap |-> st.heap], entry.key,
                                        entry.value, baseComponentOf(st, in, parsed.component))
            IN [st EXCEPT !.data = after.data, !.heap = after.heap]
     ELSE st

RECURSIVE mergeTranslatedNesteds(_, _, _)
mergeTranslatedNesteds(st, in, entries) ==
  IF entries = <<>> THEN st
  ELSE mergeTranslatedNesteds(mergeTranslatedNested(st, in, Head(entries)), in, Tail(entries))

\* the fallback of a nested field preferring the source locale
nestedFallbackSourceFirst(existingValue, sourceValue) == Coalesce(sourceValue, existingValue)

\* line 708: existingValue ?? sourceValue
nestedFallback(existingValue, sourceValue) == Coalesce(existingValue, sourceValue)

\* lines 702-718, one iteration
mergeConfiguredNested(st, in, nested, configField) ==
  IF isNestedField(configField) /\ ~Truthy(Lookup(nested, configField))
    THEN LET parsed == parseNestedField(configField)
         IN IF parsed.ok /\ fieldExistsInSchema(in.contentType, parsed.component)
              THEN LET sourceValue == getNestedValue(in.source.doc, st.heap, configField)
                       existingValue ==
                         IF in.existing # JNull
                           THEN getNestedValue(in.existing.doc, st.heap, configField)
                           ELSE JUndef
                       valueToUse == nestedFallback(existingValue, sourceValue)
                   IN IF ~Nullish(valueToUse)
                        THEN LET after == setNestedValue(
                                            [data |-> st.data, heap |-> st.heap], configField,
                                            valueToUse, baseComponentOf(st, in, parsed.component))
                             IN [st EXCEPT !.data = after.data, !.heap = after.heap]
                        ELSE st
              ELSE st
    ELSE st

RECURSIVE mergeConfiguredNesteds(_, _, _, _)
mergeConfiguredNesteds(st, in, nested, configFields) ==
  IF configFields = <<>> THEN st
  ELSE mergeConfiguredNesteds(mergeConfiguredNested(st, in, nested, Head(configFields)),
                              in, nested, Tail(configFields))

\* what the document service receives: references replaced by the objects they denote
Payload(data, heap) ==
  [k \in DOMAIN data |-> IF IsRef(data[k]) THEN [obj |-> heap[data[k].ref]] ELSE data[k]]

Outcome(result, reads, updates, heap) ==
  [result |-> result, reads |-> reads, updates |-> updates, heap |-> heap]
Failure(message) == [kind |-> "returned", success |-> FALSE, message |-> message]
Success(message) == [kind |-> "returned", success |-> TRUE, message |-> message]
Raise(message) == [kind |-> "thrown", success |-> FALSE, message |-> message]

\* the failure test looking at metadata.success only
metadataFailedSuccessOnly(metadata) == metadata.success = Str("false")

\* line 585: metadata?.success === 'false' || metadata?.error
\* (an absent metadata object has both keys undefined)
metadataFailed(metadata) == metadata.success = Str("false") \/ Truthy(metadata.error)

\* the update's data with the merged fields spread after the draft marker
updateDataMergedLast(mergedData) ==
  [k \in DOMAIN mergedData \cup {N_publishedAt} |->
     IF k \in DOMAIN mergedData THEN mergedData[k] ELSE JNull]

\* lines 723-726: { ...mergedData, publishedAt: null }
updateData(mergedData) == Put(mergedData, N_publishedAt, JNull)

\* storeTranslation(documentId, contentType, locale, fields, metadata).
\* in = [documentId, contentType, locale, fields, metadata] and what the
\* collaborators hold: translatableFields (plugin config), source (the
\* source-locale document, JNull when there is none), existing (the target
\* locale document), heap (the component objects of both), probe.
storeTranslation(in) ==
  IF metadataFailed(in.metadata)
    THEN Outcome(Failure(<<"Translation failed", Or(in.metadata.error, Str("Unknown error"))>>),
                 <<>>, <<>>, in.heap)
  ELSE IF in.contentType \notin DOMAIN ContentTypes
    THEN Outcome(Raise(<<"Content type not found", in.contentType>>), <<>>, <<>>, in.heap)
  ELSE
    LET translated == partitionFields([regular |-> <<>>, nested |-> <<>>],
                                      in.fields, in.translatableFields)
        readSource == [type |-> in.contentType, documentId |-> in.documentId,
                       locale |-> SourceLocale]
        readExisting == [type |-> in.contentType, documentId |-> in.documentId,
                         locale |-> in.locale]
    IN IF in.source = JNull
         THEN Outcome(Raise(<<"Failed to store translation", "Source document not found">>),
                      <<readSource>>, <<>>, in.heap)
       ELSE
         LET start == [data |-> <<>>, heap |-> in.heap, reads |-> <<readSource, readExisting>>]
             plain == mergeFields(start, in, translated.regular,
                                  getLocalizableFields(in.contentType))
             nested == mergeTranslatedNesteds(plain, in, translated.nested)
             final == mergeConfiguredNesteds(nested, in, translated.nested,
                                             in.translatableFields)
             update == [type |-> in.contentType, documentId |-> in.documentId,
                        locale |-> in.locale,
                        data |-> updateData(Payload(final.data, final.heap))]
         IN Outcome(Success(<<"Translation stored for locale", in.locale>>),
                    final.reads, <<update>>, final.heap)

\* ------------------------------------------------------------------------
\* The callbacks the merge engine is checked on
\* ------------------------------------------------------------------------
\* the entries of an object whose keys are given in order; JUndef marks an absent key
RECURSIVE EntriesOf(_, _)
EntriesOf(keys, values) ==
  IF keys = <<>> THEN <<>>
  ELSE (IF Head(values) = JUndef THEN <<>> ELSE <<Entry(Head(keys), Head(values))>>)
         \o EntriesOf(Tail(keys), Tail(values))

Metadatas ==
  {[success |-> JUndef, error |-> JUndef],
   [success |-> Str("true"), error |-> JUndef],
   [success |-> Str("false"), error |-> JUndef],
   [success |-> Str("true"), error |-> Str("boom")]}

NoProbe == [d \in {"a1", "a2"} |-> "found"]

Input(contentType, translatableFields, fields, metadata, source, existing, heap, probe) ==
  [documentId |-> "doc1", contentType |-> contentType, locale |-> "fr",
   translatableFields |-> translatableFields, fields |-> fields, metadata |-> metadata,
   source |-> source, existing |-> existing, heap |-> heap, probe |-> probe]

PageConfigs ==
  {<<N_title, P_seoTitle, P_seoDesc, P_metaTitle>>, <<N_title, P_seoTitle>>, <<>>}

PageFields ==
  {EntriesOf(<<N_title, toDifyFieldName(P_seoTitle), toDifyFieldName(P_seoDesc),
               toDifyFieldName(P_metaTitle)>>, <<t, st, sd, mt>>) :
     t \in {JUndef, Str("Bonjour")},
     st \in {JUndef, JNull, Str(""), Str("SEO Bonjour")},
     sd \in {JUndef, Str("Desc fr")},
     mt \in {JUndef, Str(""), Str("Meta fr")}}

PageSourceComps ==
  {Obj2(N_seo, seo, N_meta, meta) :
     seo \in {JNull, Some(Obj2(N_title, Str("SEO Hello"), N_desc, JNull)),
              Some(Obj2(N_title, Str("SEO Hello"), N_desc, Str("Desc")))},
     meta \in {JNull, Some(Obj1(N_title, Str("Meta")))}}

PageExistingComps ==
  {Obj2(N_seo, seo, N_meta, meta) :
     seo \in {JNull, Some(Obj2(N_title, Str("Ancien"), N_desc, JNull))},
     meta \in {JNull, Some(Obj1(N_title, Str("Meta ancien")))}}

PageInputs ==
  {Input("page", cfg, f, m,
         DocOf("source", Obj1(N_title, Str("Hello")), sc),
         IF ec = JNull THEN JNull
         ELSE DocOf("existing", Obj1(N_title, Str("Old Bonjour")), ec.obj),
         Merge2(HeapOf("source", sc), IF ec = JNull THEN <<>> ELSE HeapOf("existing", ec.obj)),
         NoProbe) :
     cfg \in PageConfigs, f \in PageFields, m \in Metadatas,
     sc \in PageSourceComps, ec \in {Some(c) : c \in PageExistingComps} \cup {JNull}}

PostFields ==
  {EntriesOf(<<N_title>>, <<t>>) : t \in {JUndef, JNull, Str(""), Str("Bonjour")}}

PostSources ==
  {DocOf("source", [k \in {N_title, N_author, N_category} |->
                      IF k = N_title THEN t ELSE IF k = N_author THEN a ELSE Arr(<<"c1">>)],
         <<>>) :
     t \in {JNull, Str("Hello")},
     a \in {JNull, Arr(<<"a1">>), Arr(<<"a1", "a2">>), One("a2")}}

PostExistings ==
  {JNull} \cup
  {DocOf("existing", [k \in {N_title, N_author, N_category} |->
                        IF k = N_title THEN t ELSE IF k = N_author THEN a ELSE JNull],
         <<>>) :
     t \in {JNull, Str("Old Bonjour")},
     a \in {JNull, Arr(<<>>), Arr(<<"a2">>)}}

Probes == [{"a1", "a2"} -> {"found", "missing", "raises"}]

PostInputs ==
  {Input("post", cfg, f, m, src, ex, <<>>, pr) :
     cfg \in {<<N_title>>}, f \in PostFields, m \in {[success |-> Str("true"), error |-> JUndef]},
     src \in PostSources, ex \in PostExistings, pr \in Probes}

\* a callback for an unknown content type, and one whose source document is missing
OddInputs ==
  {Input("ghost", <<N_title>>, EntriesOf(<<N_title>>, <<Str("Bonjour")>>),
         [success |-> JUndef, error |-> JUndef], JNull, JNull, <<>>, NoProbe),
   Input("page", <<N_title>>, EntriesOf(<<N_title>>, <<Str("Bonjour")>>),
         [success |-> JUndef, error |-> JUndef], JNull, JNull, <<>>, NoProbe)}

\* callbacks for a type with a component and a dynamic zone, some carrying a
\* top-level key named like the component or the zone
LandingConfigs == {<<>>, <<N_title, N_hero, N_blocks>>}

LandingFields ==
  {EntriesOf(<<N_title, N_hero, N_blocks>>, <<t, h, b>>) :
     t \in {JUndef, Str("Bonjour")},
     h \in {JUndef, Str("Hero fr")},
     b \in {JUndef, Str("Blocks fr")}}

LandingSourceComps ==
  {Obj2(N_hero, hero, N_blocks, blocks) :
     hero \in {JNull, Some(Obj1(N_title, Str("Hero")))},
     blocks \in {JNull, Some(Obj1(<<"0">>, Str("Block")))}}

LandingExistingComps ==
  {Obj2(N_hero, hero, N_blocks, blocks) :
     hero \in {JNull, Some(Obj1(N_title, Str("Hero ancien")))},
     blocks \in {JNull, Some(Obj1(<<"0">>, Str("Bloc ancien")))}}

LandingInputs ==
  {Input("landing", cfg, f, [success |-> Str("true"), error |-> JUndef],
         DocOf("source", Obj1(N_title, Str("Hello")), sc),
         IF ec = JNull THEN JNull
         ELSE DocOf("existing", Obj1(N_title, JNull), ec.obj),
         Merge2(HeapOf("source", sc), IF ec = JNull THEN <<>> ELSE HeapOf("existing", ec.obj)),
         NoProbe) :
     cfg \in LandingConfigs, f \in LandingFields,
     sc \in LandingSourceComps, ec \in {Some(c) : c \in LandingExistingComps} \cup {JNull}}

\* callbacks for a published page, some carrying a publishedAt key or a key
\* decoded to a path below publishedAt
PublishedConfigs == {<<>>, <<N_title, N_publishedAt>>, <<N_title, P_publishedAtX>>}

PublishedFields ==
  {EntriesOf(<<N_title, N_publishedAt, toDifyFieldName(P_publishedAtX)>>, <<Str("Bonjour"), p, x>>) :
     p \in {JUndef, Str("2025-01-01")},
     x \in {JUndef, Str("now")}}

PublishedDoc(owner, date) ==
  DocOf(owner, Obj2(N_title, Str("Hello"), N_publishedAt, date),
        Obj2(N_seo, JNull, N_meta, JNull))

PublishedInputs ==
  {Input("page", cfg, f, [success |-> JUndef, error |-> JUndef],
         PublishedDoc("source", Str("2024-01-01")), ex, <<>>, NoProbe) :
     cfg \in PublishedConfigs, f \in PublishedFields,
     ex \in {JNull, PublishedDoc("existing", Str("2024-02-02")),
             PublishedDoc("existing", JNull)}}

\* callbacks for a page configured with seo.title alone, carrying keys the
\* configuration does not name: title, and seo.desc written with its dot
UnmatchedInputs ==
  {Input("page", <<P_seoTitle>>,
         EntriesOf(<<N_title, toDifyFieldName(P_seoTitle), P_seoDesc>>, <<t, st, sd>>),
         [success |-> JUndef, error |-> JUndef],
         DocOf("source", Obj1(N_title, Str("Hello")), sc),
         IF ec = JNull THEN JNull
         ELSE DocOf("existing", Obj1(N_title, Str("Old Bonjour")), ec.obj),
         Merge2(HeapOf("source", sc), IF ec = JNull THEN <<>> ELSE HeapOf("existing", ec.obj)),
         NoProbe) :
     t \in {JUndef, Str("Bonjour")},
     st \in {JUndef, Str("SEO Bonjour")},
     sd \in {JUndef, Str("Desc fr")},
     sc \in {Obj2(N_seo, Some(Obj2(N_title, Str("SEO Hello"), N_desc, Str("Desc"))),
                   N_meta, JNull)},
     ec \in {JNull, Some(Obj2(N_seo, Some(Obj2(N_title, Str("Ancien"), N_desc, JNull)),
                                N_meta, JNull))}}

MergeInputs ==
  PageInputs \cup PostInputs \cup LandingInputs \cup PublishedInputs \cup OddInputs
    \cup UnmatchedInputs

\* the callback controller invoking storeTranslation on the request it received
StoreTranslation ==
  /\ call.phase = "received"
  /\ call' = [phase |-> "done", in |-> call.in, out |-> storeTranslation(call.in)]
  /\ UNCHANGED <<trackerVars, dispatchVars, pollVars>>

InitMerge ==
  /\ InitTracker
  /\ InitDispatch
  /\ InitPoll
  /\ \E in \in MergeInputs : call = [phase |-> "received", in |-> in]

NextMerge == StoreTranslation

SpecMerge == InitMerge /\ [][NextMerge]_vars

\* ------------------------------------------------------------------------
\* The callback route (routes/content-api.ts): the callback-auth middleware,
\* then the callback controller.  Header and token are strings of characters.
\* ------------------------------------------------------------------------
BearerPrefix == <<"b", "e", "a", "r", "e", "r", " ">>

\* String.prototype.startsWith and slice on strings of characters
startsWithText(text, prefix) ==
  Len(text) >= Len(prefix) /\ SubSeq(text, 1, Len(prefix)) = prefix
slice(text, n) == SubSeq(text, n + 1, Len(text))

Proceed == [next |-> TRUE, status |-> 0, message |-> <<>>]
Unauthorized(message) == [next |-> FALSE, status |-> 401, message |-> message]

\* the middleware letting through every request that carries a header
callbackAuthHeaderPresent(callbackApiToken, authHeader) ==
  IF callbackApiToken = <<>> THEN Proceed
  ELSE IF authHeader = UndefinedStr \/ authHeader = <<>>
    THEN Unauthorized(<<"Missing authorization header">>)
  ELSE Proceed

\* callbackAuth: callbackApiToken is <<>> when none is configured, authHeader
\* is UndefinedStr when the request has no Authorization header
callbackAuth(callbackApiToken, authHeader) ==
  IF callbackApiToken = <<>> THEN Proceed
  ELSE IF authHeader = UndefinedStr \/ authHeader = <<>>
    THEN Unauthorized(<<"Missing authorization header">>)
  ELSE LET token == IF startsWithText(toLowerCase(authHeader), BearerPrefix)
                      THEN slice(authHeader, 7)
                      ELSE authHeader
       IN IF token # callbackApiToken
            THEN Unauthorized(<<"Invalid API token">>)
            ELSE Proceed

T_tok == <<"t", "o", "k">>
T_other == <<"o", "k">>
T_Bearer == <<"B", "e", "a", "r", "e", "r", " ">>

CallbackTokens == {<<>>, T_tok, T_Bearer \o T_tok}

AuthHeaders ==
  {UndefinedStr, <<>>, T_tok, T_other,
   T_Bearer \o T_tok, T_Bearer \o T_other,
   BearerPrefix \o T_tok,
   <<"B", "E", "A", "R", "E", "R", " ">> \o T_tok,
   <<"B", "e", "a", "r", "e", "r">> \o T_tok,
   T_Bearer \o <<" ">> \o T_tok,
   T_Bearer \o T_Bearer \o T_tok}

\* callbacks naming the source locale: the target-locale document they
\* fetch is the source document
SourceLocaleBodies ==
  {[in EXCEPT !.locale = SourceLocale, !.existing = in.source] :
     in \in {i \in PublishedInputs : i.existing = JNull}}

\* the bodies of the callbacks sent to the route, one of them without a locale
CallbackBodies ==
  PublishedInputs \cup OddInputs \cup SourceLocaleBodies
    \cup {[in EXCEPT !.locale = ""] : in \in OddInputs}

NoOutcome == Outcome(Failure(<<>>), <<>>, <<>>, <<>>)

Request(token, header, in) ==
  [phase |-> "arrived", token |-> token, header |-> header, in |-> in,
   status |-> 0, handled |-> FALSE, out |-> NoOutcome]

\* the middleware: next() or a 401 response
CallbackAuth ==
  /\ call.phase = "arrived"
  /\ LET verdict == callbackAuth(call.token, call.header)
     IN call' = IF verdict.next
                  THEN [call EXCEPT !.phase = "authorized"]
                  ELSE [call EXCEPT !.phase = "responded", !.status = verdict.status]
  /\ UNCHANGED <<trackerVars, dispatchVars, pollVars>>

\* the callback controller: 400 for a missing field or a raised error, else
\* the result of storeTranslation
Callback ==
  /\ call.phase = "authorized"
  /\ IF call.in.documentId = "" \/ call.in.locale = "" \/ call.in.contentType = ""
       THEN call' = [call EXCEPT !.phase = "responded", !.status = 400, !.handled = TRUE]
       ELSE LET out == storeTranslation(call.in)
            IN call' = [call EXCEPT !.phase = "responded",
                                    !.status = IF out.result.kind = "thrown" THEN 400 ELSE 200,
                                    !.handled = TRUE,
                                    !.out = out]
  /\ UNCHANGED <<trackerVars, dispatchVars, pollVars>>

InitCallback ==
  /\ InitTracker
  /\ InitDispatch
  /\ InitPoll
  /\ \E token \in CallbackTokens, header \in AuthHeaders, in \in CallbackBodies :
       call = Request(token, header, in)

NextCallback ==
  \/ CallbackAuth
  \/ Callback

SpecCallback == InitCallback /\ [][NextCallback]_vars

\* ------------------------------------------------------------------------
\* The tracker driven directly through its interface, by any caller
\* ------------------------------------------------------------------------
RECURSIVE SumOver(_, _)
SumOver(f, S) ==
  IF S = {} THEN 0
  ELSE LET x == CHOOSE y \in S : TRUE IN f[x] + SumOver(f, S \ {x})

TotalEvents == SumOver([j \in DOMAIN activeJobs |-> Len(activeJobs[j].events)], DOMAIN activeJobs)
TotalTimers == SumOver(timers, JobIds)

NodeInputs == {<<S_llm, S_translate>>, <<S_start, S_empty>>,
               <<S_httpRequest, S_sendToStrapi>>}

StartJob(jobId, targetLocales) ==
  /\ \/ jobId \in DOMAIN activeJobs
     \/ TotalEvents < MaxEvents
  /\ SetRegistry(startJob(Registry, jobId, targetLocales))
  /\ UNCHANGED <<dispatchVars, call, pollVars>>

AddEvent(jobId, message) ==
  /\ TotalEvents < MaxEvents
  /\ SetRegistry(addEvent(Registry, jobId,
                          Event(jobId, "node_started", message, UndefinedStr, 0, 1)))
  /\ UNCHANGED <<dispatchVars, call, pollVars>>

NodeStarted(jobId, nodeType, nodeTitle) ==
  /\ TotalEvents < MaxEvents
  /\ SetRegistry(nodeStarted(Registry, jobId, nodeType, nodeTitle))
  /\ UNCHANGED <<dispatchVars, call, pollVars>>

NodeFinished(jobId, nodeType, nodeTitle) ==
  /\ TotalEvents < MaxEvents
  /\ SetRegistry(nodeFinished(Registry, jobId, nodeType, nodeTitle))
  /\ UNCHANGED <<dispatchVars, call, pollVars>>

CompleteJob(jobId, success, message) ==
  /\ TotalEvents < MaxEvents
  /\ TotalTimers < MaxTimers
  /\ SetRegistry(completeJob(Registry, jobId, success, message))
  /\ UNCHANGED <<dispatchVars, call, pollVars>>

TStart == \E j \in JobIds, tl \in {<<"fr">>, <<"fr", "de">>} : StartJob(j, tl)
TAdd == \E j \in JobIds : AddEvent(j, <<"note">>)
TNodeStarted == \E j \in JobIds, n \in NodeInputs : NodeStarted(j, n[1], n[2])
TNodeFinished == \E j \in JobIds, n \in NodeInputs : NodeFinished(j, n[1], n[2])
TComplete ==
  \E j \in JobIds, ok \in BOOLEAN, m \in {UndefinedStr, <<"Workflow status", "failed">>} :
    CompleteJob(j, ok, m)

NextTracker ==
  \/ TStart
  \/ TAdd
  \/ TNodeStarted
  \/ TNodeFinished
  \/ TComplete
  \/ Timeout

SpecTracker == Init /\ [][NextTracker]_vars

\* ------------------------------------------------------------------------
\* Polling (controllers/progress.ts) and retention, with the clock followed:
\* jobs are started under fresh ids as sendToTranslation starts them, the
\* stream processor reports saved locales and completions, clients poll.
\* ------------------------------------------------------------------------
Digits == <<"0", "1", "2", "3", "4", "5", "6", "7", "8", "9">>

\* parseInt(text, 10) of a string of decimal digits
RECURSIVE parseInt(_)
parseInt(text) ==
  IF text = <<>> THEN 0
  ELSE 10 * parseInt(SubSeq(text, 1, Len(text) - 1))
         + (CHOOSE d \in 0..9 : Digits[d + 1] = text[Len(text)])

\* ctx.query.since: absent (or empty), or one decimal digit
SinceQueries == {<<>>} \cup {<<Digits[n + 1]>> : n \in 0..MaxSince}

\* a poll that takes the events it returns out of the job
GetProgressDraining(jobId, since) ==
  /\ LET sinceIndex == parseInt(IF since # <<>> THEN since ELSE <<"0">>)
         events == getEvents(Registry, jobId, sinceIndex)
     IN /\ polled' = [jobId |-> jobId, sinceIndex |-> sinceIndex, events |-> events]
        /\ activeJobs' =
             [j \in DOMAIN activeJobs |->
                IF j = jobId
                  THEN [activeJobs[j] EXCEPT !.events =
                          SelectSeq(@, LAMBDA e : \A i \in 1..Len(events) : events[i] # e)]
                  ELSE activeJobs[j]]
  /\ UNCHANGED <<timers, dispatchVars, call, now, due>>

\* getProgress: parseInt(ctx.query.since || '0', 10), then getEvents
GetProgress(jobId, since) ==
  /\ LET sinceIndex == parseInt(IF since # <<>> THEN since ELSE <<"0">>)
     IN polled' = [jobId |-> jobId, sinceIndex |-> sinceIndex,
                   events |-> getEvents(Registry, jobId, sinceIndex)]
  /\ UNCHANGED <<trackerVars, dispatchVars, call, now, due>>

\* sendToTranslation: jobId = generateJobId(); startJob(jobId, ...); one job is
\* followed, the other id stays unknown to the tracker
BeginJob(targetLocales) ==
  /\ usedIds = {}
  /\ TotalEvents < MaxEvents
  /\ LET jobId == generateJobId(usedIds)
     IN /\ SetRegistry(startJob(Registry, jobId, targetLocales))
        /\ usedIds' = usedIds \cup {jobId}
  /\ UNCHANGED <<pc, curJob, stream, pos, buffer, outcome, ack, call, pollVars>>

\* a node_finished event of the callback node reaching the tracker
SavedLocale(jobId) ==
  /\ jobId \in usedIds
  /\ TotalEvents < MaxEvents
  /\ SetRegistry(nodeFinished(Registry, jobId, S_httpRequest, S_sendToStrapi))
  /\ UNCHANGED <<dispatchVars, call, pollVars>>

\* a timer as setTimeout keeps it: what it deletes and when it fires
Timer(jobId, delay) == [jobId |-> jobId, at |-> now + delay]

\* completeJob with its timer: the timer is set only when the job is registered
CompleteJobAt(jobId, success) ==
  /\ jobId \in usedIds
  /\ TotalEvents < MaxEvents
  /\ Len(due) < MaxTimers
  /\ SetRegistry(completeJob(Registry, jobId, success, UndefinedStr))
  /\ due' = IF jobId \in DOMAIN activeJobs
              THEN Append(due, Timer(jobId, EvictionDelay))
              ELSE due
  /\ UNCHANGED <<dispatchVars, call, polled, now>>

\* the oldest timer fires at its deadline: activeJobs.delete(jobId)
Expire ==
  /\ due # <<>>
  /\ Head(due).at <= now
  /\ SetRegistry(evict(Registry, Head(due).jobId))
  /\ due' = Tail(due)
  /\ UNCHANGED <<dispatchVars, call, polled, now>>

\* a minute passes; a timer that is due fires first
Tick ==
  /\ now < MaxTime
  /\ IF due = <<>> THEN TRUE ELSE Head(due).at > now
  /\ now' = now + 1
  /\ UNCHANGED <<trackerVars, dispatchVars, call, polled, due>>

PBegin == BeginJob(<<"fr">>)
PSaved == \E j \in JobIds : SavedLocale(j)
PComplete == \E j \in JobIds, ok \in BOOLEAN : CompleteJobAt(j, ok)
PPoll == \E j \in JobIds, q \in SinceQueries : GetProgress(j, q)

NextPolling ==
  \/ PBegin
  \/ PSaved
  \/ PComplete
  \/ PPoll
  \/ Expire
  \/ Tick

SpecPolling == Init /\ [][NextPolling]_vars

\* ------------------------------------------------------------------------
\* Properties
\* ------------------------------------------------------------------------
Terminal == {"completed", "error"}
Last(q) == q[Len(q)]

\* C1: once a job's status is completed or error, no later operation on that
\* job changes its status (the job may only disappear by eviction).
C1_TerminalStatusIsFinal ==
  [][\A j \in DOMAIN activeJobs :
       (activeJobs[j].status \in Terminal /\ j \in DOMAIN activeJobs')
         => activeJobs'[j].status = activeJobs[j].status]_vars

\* C2: in every registered job the i-th event of the event list has index i,
\* counting from 0.
C2_EventIndexIsPosition ==
  \A j \in DOMAIN activeJobs :
    \A i \in 1..Len(activeJobs[j].events) : activeJobs[j].events[i].index = i - 1

\* a terminal job whose list holds at least three events, a node_finished among them
C2_Witness ==
  \E j \in DOMAIN activeJobs :
    /\ Len(activeJobs[j].events) >= 3
    /\ activeJobs[j].status \in Terminal
    /\ activeJobs[j].events[2].type = "node_finished"

\* the job as it is when the whole body arrives in one read, starting from the
\* registry startJob leaves
OneReadJob(jobId, targetLocales, body) ==
  LET fresh == startJob([jobs |-> <<>>, timers |-> [j \in JobIds |-> 0]], jobId, targetLocales)
  IN processChunk(fresh, jobId, <<>>, body).reg.jobs[jobId]

\* C3: when the body has been read to its end, the events recorded and the
\* status are those of reading the same body in a single chunk, however the
\* body was split into chunks.
C3_ChunkingIndependent ==
  (pc = "done" /\ outcome = "stream_end" /\ curJob \in DOMAIN activeJobs)
    => LET job == activeJobs[curJob]
           ref == OneReadJob(curJob, job.targetLocales, stream)
       IN job.events = ref.events /\ job.status = ref.status

InFlight == {"fetching", "reading"}

\* C4: the acknowledgment {success: true, jobId} is returned in the step that
\* starts the request, before any outcome of the request exists, and no
\* outcome of the request (failure, response, stream event, or none at all)
\* changes what was returned.
C4_AckNeverWaits ==
  [][/\ (pc' = "fetching" /\ pc = "idle")
          => (ack'.kind = "returned" /\ ack'.success /\ ack'.jobId = curJob'
              /\ outcome' = "none")
     /\ pc \in InFlight => ack' = ack]_vars

\* the request failed after the acknowledgment had been returned
C4_Witness ==
  /\ pc = "done"
  /\ outcome = "rejected"
  /\ ack.kind = "returned"
  /\ ack.jobId = curJob
  /\ Last(activeJobs[curJob].events).type = "error"

Failures == {"not_ok", "no_body", "rejected", "stream_error"}

FailureText(o) ==
  CASE o = "not_ok" -> {"Dify API error", "Failed to connect to Dify"}
    [] o = "no_body" -> {"Dify response has no body"}
    [] o = "rejected" -> {"Failed to connect to Dify"}
    [] o = "stream_error" -> {"Stream error"}

\* C5: a non-success status, a rejected request, a response without body or
\* a failing read marks the job error and appends one error event with a
\* message naming the failure; before the stream is read the job is always
\* there to be marked.
C5_FailureMarksJobError ==
  [][(outcome' \in Failures /\ outcome \notin Failures)
       => /\ outcome' # "stream_error" => curJob \in DOMAIN activeJobs
          /\ curJob \in DOMAIN activeJobs =>
               /\ curJob \in DOMAIN activeJobs'
               /\ activeJobs'[curJob].status = "error"
               /\ activeJobs'[curJob].events =
                    Append(activeJobs[curJob].events, Last(activeJobs'[curJob].events))
               /\ Last(activeJobs'[curJob].events).type = "error"
               /\ Last(activeJobs'[curJob].events).message[1] \in FailureText(outcome')]_vars

\* a response without body has marked a running job error
C5_Witness ==
  /\ outcome = "no_body"
  /\ curJob \in DOMAIN activeJobs
  /\ activeJobs[curJob].status = "error"
  /\ Len(activeJobs[curJob].events) = 2
  /\ activeJobs[curJob].events[2].message = <<"Dify response has no body">>

\* ------------------------------------------------------------------------
\* Properties of the merge engine
\* ------------------------------------------------------------------------
Done == call.phase = "done"
Stored == Done /\ Len(call.out.updates) = 1
Written == call.out.updates[1].data

\* nothing and null are the same absence of a value
SameValue(a, b) == (Nullish(a) /\ Nullish(b)) \/ a = b

FirstValue(a, b, c) ==
  IF ~Nullish(a) THEN a ELSE IF ~Nullish(b) THEN b ELSE IF ~Nullish(c) THEN c ELSE JUndef

AttributesOf(contentType) ==
  {ContentTypes[contentType].attributes[i] : i \in 1..Len(ContentTypes[contentType].attributes)}

LocalizableAttributes(contentType) ==
  {a \in AttributesOf(contentType) : a.name \notin ExcludedFields /\ ~a.private /\ a.localized}

\* what the fetched documents held before the merge ran
SourceField(name) == Get(call.in.source.doc, name)
ExistingField(name) ==
  IF call.in.existing = JNull THEN JUndef ELSE Get(call.in.existing.doc, name)
FetchedObject(value) == IF IsRef(value) THEN call.in.heap[value.ref] ELSE <<>>

\* the value the callback carries for a field the configuration accepts
CallbackValue(path) ==
  IF call.in.translatableFields = <<>> \/ Contains(call.in.translatableFields, path)
    THEN Lookup(call.in.fields, toDifyFieldName(path))
    ELSE JUndef

\* the configured component.field paths of the request's content type
ConfiguredNested ==
  {p \in {call.in.translatableFields[i] : i \in 1..Len(call.in.translatableFields)} :
     /\ Len(splitDots(p)) = 2
     /\ \E a \in AttributesOf(call.in.contentType) : a.name = splitDots(p)[1]}

WrittenObject(component) ==
  IF component \in DOMAIN Written /\ DOMAIN Written[component] = {"obj"}
    THEN Written[component].obj
    ELSE <<>>

\* C6: when the metadata signals failure (success is "false" or error is
\* non-empty) storeTranslation returns success = false and makes no
\* document-store read and no update.
C6_FailedMetadataTouchesNoStorage ==
  (Done /\ (call.in.metadata.success = Str("false")
            \/ call.in.metadata.error \notin {JUndef, JNull, Str("")}))
    => /\ call.out.result.kind = "returned"
       /\ ~call.out.result.success
       /\ call.out.reads = <<>>
       /\ call.out.updates = <<>>

\* a callback with a non-empty metadata.error, for a document that exists, was refused
C6_Witness ==
  /\ Done
  /\ call.in.metadata = [success |-> Str("true"), error |-> Str("boom")]
  /\ call.in.source # JNull
  /\ Len(call.in.fields) > 0
  /\ ~call.out.result.success

C8_NestedTranslatedWins ==
  Stored =>
    \A p \in ConfiguredNested :
      ~Nullish(CallbackValue(p)) =>
        LET component == splitDots(p)[1]
            field == splitDots(p)[2]
            base == FetchedObject(IF IsRef(ExistingField(component))
                                    THEN ExistingField(component)
                                    ELSE SourceField(component))
            written == WrittenObject(component)
        IN /\ Get(written, field) = CallbackValue(p)
           /\ \A g \in (DOMAIN written \cup DOMAIN base) \ {field} :
                SameValue(Get(written, g), Get(base, g))

\* C32: storeTranslation modifies neither of the documents it fetched: the
\* component written for a nested path is a copy, so every component object
\* of the source-locale and of the target-locale document holds after the
\* call the subfields it held when fetched.
C32_FetchedDocumentsUntouched ==
  Done => \A r \in DOMAIN call.in.heap : call.out.heap[r] = call.in.heap[r]

\* the callback keys that decode to a configured translatable field
Matched(in) ==
  {i \in 1..Len(in.fields) :
     Contains(in.translatableFields,
              fromDifyFieldName(in.fields[i].key, in.translatableFields))}

\* the callback without the other keys
WithoutUnmatched(in) ==
  [in EXCEPT !.fields = SelectSeq(in.fields,
                                  LAMBDA e : Contains(in.translatableFields,
                                                      fromDifyFieldName(e.key, in.translatableFields)))]

\* C38: with at least one translatable field configured, a callback field
\* whose key does not decode to a configured field has no effect on the
\* write payload: the update is the one the callback without that key gives,
\* and every key of the payload is a localizable field of the schema, the
\* component of a configured nested path, or publishedAt.
C38_UnmatchedKeyIgnored ==
  (Done /\ call.in.translatableFields # <<>>) =>
    /\ call.out.updates = storeTranslation(WithoutUnmatched(call.in)).updates
    /\ Stored =>
         \A k \in DOMAIN Written :
           \/ k = N_publishedAt
           \/ \E a \in LocalizableAttributes(call.in.contentType) : a.name = k
           \/ \E q \in ConfiguredNested : splitDots(q)[1] = k

\* a callback with values for title, seo.title and seo.desc was stored under
\* a configuration that names seo.title alone: title and seo.desc were
\* written with the values of the source document
C38_Witness ==
  /\ Stored
  /\ call.in.translatableFields = <<P_seoTitle>>
  /\ Lookup(call.in.fields, N_title) = Str("Bonjour")
  /\ Lookup(call.in.fields, P_seoDesc) = Str("Desc fr")
  /\ Lookup(call.in.fields, toDifyFieldName(P_seoTitle)) = Str("SEO Bonjour")
  /\ Matched(call.in) = {2}
  /\ call.in.existing = JNull
  /\ Get(Written, N_title) = Str("Hello")
  /\ WrittenObject(N_seo) = Obj2(N_title, Str("SEO Bonjour"), N_desc, Str("Desc"))

RelatedIds(value) ==
  IF IsArr(value) THEN value.arr ELSE IF IsOne(value) THEN <<value.one>> ELSE <<>>

\* C10: a localizable relation to a locale-aware type is written as the
\* connect list of exactly the related documents (of the existing value if
\* there is one, else of the source value) that resolve in the target
\* locale; documents that do not resolve or whose probe raises are dropped
\* without failing the call, and with none left the field is not written.
C10_LocalizedRelationFiltered ==
  (Done /\ call.in.contentType = "post" /\ call.in.source # JNull)
    => /\ Stored
       /\ call.out.result.success
       /\ \A a \in LocalizableAttributes(call.in.contentType) :
            (a.type = "relation" /\ a.target \in DOMAIN ContentTypes
               /\ ContentTypes[a.target].localized) =>
              LET value == IF Truthy(ExistingField(a.name)) THEN ExistingField(a.name)
                           ELSE SourceField(a.name)
                  kept == SelectSeq(RelatedIds(value),
                                    LAMBDA d : call.in.probe[d] = "found")
              IN IF kept = <<>> THEN a.name \notin DOMAIN Written
                 ELSE a.name \in DOMAIN Written /\ Written[a.name] = Connect(kept)

\* of two related documents the one whose probe raised was dropped, the other connected
C10_Witness ==
  /\ Stored
  /\ call.in.contentType = "post"
  /\ call.in.existing = JNull
  /\ SourceField(N_author) = Arr(<<"a1", "a2">>)
  /\ call.in.probe["a1"] = "raises"
  /\ call.in.probe["a2"] = "found"
  /\ Get(Written, N_author) = Connect(<<"a2">>)

\* the only related document is missing in the target locale: the relation is not written
C10_WitnessOmitted ==
  /\ Stored
  /\ SourceField(N_author) = Arr(<<"a1">>)
  /\ call.in.existing = JNull
  /\ call.in.probe["a1"] = "missing"
  /\ N_author \notin DOMAIN Written

\* C11: every localizable component or dynamic-zone field is written with the
\* existing target-locale value if that is defined and non-null, else with
\* the source-locale value, and is not written when both are absent; a
\* callback key named like the field never replaces it. Subfields addressed
\* by a configured component.field path follow the nested-field rules and
\* are left out of the comparison.
C11_ComponentFromExistingOrSource ==
  Stored =>
    \A a \in LocalizableAttributes(call.in.contentType) :
      a.type \in {"component", "dynamiczone"} =>
        LET chosen == IF ~Nullish(ExistingField(a.name)) THEN ExistingField(a.name)
                      ELSE SourceField(a.name)
            addressed == {splitDots(p)[2] : p \in {q \in ConfiguredNested :
                                                     splitDots(q)[1] = a.name}}
            fetched == FetchedObject(chosen)
            written == WrittenObject(a.name)
        IN IF Nullish(chosen)
             THEN addressed = {} => a.name \notin DOMAIN Written
             ELSE /\ a.name \in DOMAIN Written
                  /\ DOMAIN Written[a.name] = {"obj"}
                  /\ \A g \in (DOMAIN written \cup DOMAIN fetched) \ addressed :
                       SameValue(Get(written, g), Get(fetched, g))

\* the callback carried hero: "Hero fr" for a type whose hero is a component;
\* with no target-locale document the source component was written
C11_Witness ==
  /\ Stored
  /\ call.in.contentType = "landing"
  /\ CallbackValue(N_hero) = Str("Hero fr")
  /\ CallbackValue(N_blocks) = Str("Blocks fr")
  /\ call.in.existing = JNull
  /\ Get(Written, N_hero) = Some(Obj1(N_title, Str("Hero")))
  /\ ExistingField(N_blocks) = JUndef
  /\ Get(Written, N_blocks) = Some(Obj1(<<"0">>, Str("Block")))

\* C12: every update storeTranslation issues carries publishedAt = null,
\* whatever the callback fields, the source document and the existing
\* target-locale document contain.
C12_UpdateIsDraft ==
  Done =>
    \A i \in 1..Len(call.out.updates) :
      /\ N_publishedAt \in DOMAIN call.out.updates[i].data
      /\ call.out.updates[i].data[N_publishedAt] = JNull

\* source and target documents are published, the callback carries a
\* publishedAt key and a key decoded to publishedAt.x: the update is a draft
C12_Witness ==
  /\ Stored
  /\ SourceField(N_publishedAt) = Str("2024-01-01")
  /\ ExistingField(N_publishedAt) = Str("2024-02-02")
  /\ Contains(call.in.translatableFields, P_publishedAtX)
  /\ Lookup(call.in.fields, N_publishedAt) = Str("2025-01-01")
  /\ CallbackValue(P_publishedAtX) = Str("now")
  /\ Get(Written, N_title) = Str("Bonjour")
  /\ Get(Written, N_publishedAt) = JNull

\* ------------------------------------------------------------------------
\* Properties of polling and retention
\* ------------------------------------------------------------------------
EventsOf(jobId) == IF jobId \in DOMAIN activeJobs THEN activeJobs[jobId].events ELSE <<>>

\* result holds, in index order, exactly the events of the job from sinceIndex on
ExactlySince(result, jobId, sinceIndex) ==
  /\ \A i \in 1..Len(result) :
       Contains(EventsOf(jobId), result[i]) /\ result[i].index >= sinceIndex
  /\ \A i \in 1..(Len(result) - 1) : result[i].index < result[i + 1].index
  /\ \A k \in 1..Len(EventsOf(jobId)) :
       EventsOf(jobId)[k].index >= sinceIndex => Contains(result, EventsOf(jobId)[k])

\* C13: a poll getEvents(jobId, sinceIndex) is answered with exactly the
\* events of the job whose index is >= sinceIndex, in index order, and with
\* the empty sequence when the job is unknown or already evicted.
C13_PollReturnsEventsSince ==
  [][polled' # polled =>
       /\ ExactlySince(polled'.events, polled'.jobId, polled'.sinceIndex)
       /\ polled'.jobId \notin DOMAIN activeJobs => polled'.events = <<>>]_vars

\* a poll with since = 1 on a job holding three events was answered with the last two
C13_Witness ==
  /\ polled.jobId \in DOMAIN activeJobs
  /\ polled.sinceIndex = 1
  /\ Len(activeJobs[polled.jobId].events) = 3
  /\ Len(polled.events) = 2
  /\ polled.events[1].index = 1
  /\ polled.events[2].type \in {"completed", "error"}

\* C14: a poll leaves the registry (every job's status, counter and event
\* list, and the pending timers) unchanged, the same poll repeated at once is
\* answered with the identical sequence, and, conversely, a step that changes
\* the registry leaves an answer already given as it was.
C14_PollIsPure ==
  [][polled' # polled =>
       /\ activeJobs' = activeJobs
       /\ timers' = timers
       /\ getEvents([jobs |-> activeJobs', timers |-> timers'],
                    polled'.jobId, polled'.sinceIndex) = polled'.events]_vars

\* an answer holding the first event only is still held after two more appends
C14_Witness ==
  /\ polled.jobId \in DOMAIN activeJobs
  /\ polled.sinceIndex = 0
  /\ Len(polled.events) = 1
  /\ Len(activeJobs[polled.jobId].events) = 3

HasTerminalEvent(events) ==
  \E k \in 1..Len(events) : events[k].type \in {"completed", "error"}

\* C15: from a completeJob on, the job stays registered and getEvents
\* returns its events, the terminal one included, until the 5 minutes of
\* that completeJob have elapsed; once evicted, getEvents returns the empty
\* sequence.
C15_RetainedForDelay ==
  /\ \A i \in 1..Len(due) :
       due[i].at > now =>
         /\ due[i].jobId \in DOMAIN activeJobs
         /\ HasTerminalEvent(getEvents(Registry, due[i].jobId, 0))
  /\ \A j \in usedIds \ DOMAIN activeJobs : getEvents(Registry, j, 0) = <<>>

\* every tracker operation that takes a job id, applied to an id that is
\* not registered, returns the registry it was given
UnknownIsNoOp ==
  \A j \in JobIds \ DOMAIN activeJobs :
    /\ addEvent(Registry, j, Event(j, "node_started", <<"note">>, UndefinedStr, 0, 1)) = Registry
    /\ \A n \in NodeInputs :
         /\ nodeStarted(Registry, j, n[1], n[2]) = Registry
         /\ nodeFinished(Registry, j, n[1], n[2]) = Registry
    /\ \A ok \in BOOLEAN, m \in {UndefinedStr, <<"Stream error", "reset">>} :
         completeJob(Registry, j, ok, m) = Registry

\* C16: addEvent, nodeStarted, nodeFinished and completeJob on a job id that
\* is not registered (never started or already evicted) leave the registry
\* as it is, and no step registers a job under an id that was already given
\* out: what the stream delivers after the eviction does not recreate the job.
C16_UnknownJobIsNoOp ==
  [][/\ UnknownIsNoOp
     /\ UnknownIsNoOp'
     /\ \A j \in DOMAIN activeJobs' \ DOMAIN activeJobs : j \notin usedIds]_vars

\* the job was evicted while its stream was still open; the read that
\* failed afterwards called completeJob and the job stayed absent
C16_Witness ==
  /\ pc = "done"
  /\ outcome = "stream_error"
  /\ curJob \in usedIds
  /\ curJob \notin DOMAIN activeJobs

\* a job as startJob leaves it
JustStarted(job, jobId, n) ==
  /\ job.id = jobId
  /\ job.status = "running"
  /\ job.completedLocales = 0
  /\ job.totalLocales = n
  /\ Len(job.events) = 1
  /\ job.events[1].type = "started"
  /\ job.events[1].index = 0

StartJobResult ==
  \A j \in JobIds, tl \in {<<"fr">>, <<"fr", "de">>} :
    /\ j \in DOMAIN startJob(Registry, j, tl).jobs
    /\ JustStarted(startJob(Registry, j, tl).jobs[j], j, Len(tl))

\* C17: right after startJob(jobId, documentId, contentType, targetLocales)
\* the job is registered with status running, completed-locale count 0,
\* total equal to the number of target locales, and exactly one event, of
\* kind started, at index 0, whether or not the id was registered before.
C17_StartJobRegistersRunning ==
  [][/\ StartJobResult
     /\ \A j \in DOMAIN activeJobs' \ DOMAIN activeJobs :
          JustStarted(activeJobs'[j], j, Len(activeJobs'[j].targetLocales))]_vars

\* a job started for two locales, next to a job that has already failed
C17_Witness ==
  /\ "job_1" \in DOMAIN activeJobs
  /\ "job_2" \in DOMAIN activeJobs
  /\ activeJobs["job_1"].status = "error"
  /\ JustStarted(activeJobs["job_2"], "job_2", 2)
  /\ activeJobs["job_2"].targetLocales = <<"fr", "de">>

\* ------------------------------------------------------------------------
\* Properties of the validation in sendToTranslation
\* ------------------------------------------------------------------------
\* the step raised to its caller, registered no job and left no request behind
Refused ==
  /\ ack'.kind = "thrown"
  /\ activeJobs' = activeJobs
  /\ timers' = timers
  /\ usedIds' = usedIds
  /\ pc' = "idle"
  /\ curJob' = curJob

\* every locale the request resolves from is the source locale
NoTargetLocale(selectedLocales, allLocales) ==
  IF Len(selectedLocales) > 0
    THEN \A i \in 1..Len(selectedLocales) : selectedLocales[i] = SourceLocale
    ELSE \A i \in 1..Len(allLocales) : allLocales[i] = SourceLocale

\* C18: a translate request whose target locales resolve to none (every
\* selected locale, or with no selection every registered locale, is the
\* source locale) raises to its caller; no job is registered and no request
\* is sent.
C18_NoTargetLocaleRefused ==
  [][\A e \in Endpoints, sel \in SelectedChoices, all \in RegistryChoices,
        cfg \in TranslateConfigs, src \in TranslateSources :
       (NoTargetLocale(sel, all) /\ SendToTranslation(e, sel, all, ContentOf(cfg, src)))
         => /\ Refused
            /\ e # "" => ack'.message = <<"No target locales available for translation">>]_vars

\* a request naming the source locale only, or none with a registry holding
\* the source locale only, was refused before anything was registered
C18_Witness ==
  /\ ack = Thrown(<<"No target locales available for translation">>)
  /\ pc = "idle"
  /\ usedIds = {}
  /\ DOMAIN activeJobs = {}

\* C37: the target-locale list placed in the outbound payload and registered
\* with the job never contains the source locale, whether the caller
\* supplied the list or it was resolved from the locale registry.
C37_SourceLocaleNeverTargeted ==
  /\ \A j \in DOMAIN activeJobs : ~Contains(activeJobs[j].targetLocales, SourceLocale)
  /\ call.phase = "request" =>
       /\ ~Contains(call.inputs.target_locales, SourceLocale)
       /\ curJob \in DOMAIN activeJobs =>
            activeJobs[curJob].targetLocales = call.inputs.target_locales

\* a request was sent for the one locale left of a list that named the
\* source locale too, and the job is registered for that locale
C37_Witness ==
  /\ pc = "fetching"
  /\ call.phase = "request"
  /\ call.inputs.source_locale = "en"
  /\ call.inputs.target_locales = <<"fr">>
  /\ curJob \in DOMAIN activeJobs
  /\ activeJobs[curJob].targetLocales = <<"fr">>
  /\ activeJobs[curJob].totalLocales = 1

\* the value the source document holds at a configured path
StoredValue(source, path) ==
  IF ~Contains(path, ".") THEN Get(source.stored.doc, path)
  ELSE IF IsRef(Get(source.stored.doc, splitDots(path)[1]))
    THEN Get(source.heap[Get(source.stored.doc, splitDots(path)[1]).ref], splitDots(path)[2])
    ELSE JUndef

NothingToTranslate(translatableFields, source) ==
  \/ translatableFields = <<>>
  \/ source.stored = JNull
  \/ \A i \in 1..Len(translatableFields) :
       StoredValue(source, translatableFields[i]) \in {JUndef, JNull, Str("")}

Answered == call.phase \in {"authorized", "responded"}
Passed == call.phase = "authorized" \/ call.handled

\* a request that did not pass was answered 401 and reached neither the
\* handler nor the document store; with no token configured every request passes
GuardedBy(accepted) ==
  Answered =>
    IF call.token = <<>> THEN Passed
    ELSE /\ Passed => accepted
         /\ ~Passed => /\ call.status = 401
                        /\ ~call.handled
                        /\ call.out.reads = <<>>
                        /\ call.out.updates = <<>>

\* C20 as stated: with a token configured the handler runs only for a
\* request whose Authorization header is the token, bare or prefixed with
\* "Bearer "; any other request is answered 401 without the handler or the
\* document store being reached; with no token every request passes.
C20_OnlyTokenPasses ==
  GuardedBy(call.header = call.token \/ call.header = T_Bearer \o call.token)

\* C20, amended: the prefix "Bearer " is accepted in any letter case.
C20_OnlyTokenPassesAnyCase ==
  GuardedBy(\/ call.header = call.token
            \/ /\ Len(call.header) >= 7
               /\ toLowerCase(SubSeq(call.header, 1, 7)) = BearerPrefix
               /\ SubSeq(call.header, 8, Len(call.header)) = call.token)

\* a callback with the header "Bearer tok" reached the handler and the store
C20_Witness ==
  /\ call.phase = "responded"
  /\ call.token = T_tok
  /\ call.header = T_Bearer \o T_tok
  /\ call.handled
  /\ call.status = 200
  /\ Len(call.out.updates) = 1

\* C36: no callback causes an update of the source-locale document: a
\* storeTranslation invocation issues at most one update, addressed to the
\* document id and the locale of the callback, and that locale is never the
\* configured source locale.
C36_SourceLocaleNeverUpdated ==
  call.phase = "responded" =>
    /\ Len(call.out.updates) <= 1
    /\ \A i \in 1..Len(call.out.updates) :
         /\ call.out.updates[i].documentId = call.in.documentId
         /\ call.out.updates[i].locale = call.in.locale
         /\ call.out.updates[i].locale # SourceLocale

\* ------------------------------------------------------------------------
\* Extraction and merge under one configuration: getContentForTranslation
\* and storeTranslation applied to the same document, content type and
\* translatableFields, some of which have more than one dot
\* ------------------------------------------------------------------------
P_seoTitleX == <<"seo", ".", "title", ".", "x">>
P_seoDotTitle == <<"seo", ".", ".", "title">>

FieldsConfigs ==
  {<<P_seoTitleX>>,
   <<N_title, P_seoTitleX>>,
   <<P_seoTitleX, N_title, P_seoTitle>>,
   <<N_title, P_seoTitle, P_seoDotTitle, P_metaTitle>>,
   <<N_title, P_seoTitle, P_seoDesc>>,
   <<N_seo, P_seoTitle>>,
   <<N_seo, N_title>>}

\* the callback bodies: keys of plain, nested and longer specs, the last
\* both encoded and as configured
FieldsBodies ==
  {EntriesOf(<<N_title, toDifyFieldName(P_seoTitle), toDifyFieldName(P_seoTitleX),
               P_seoTitleX, toDifyFieldName(P_seoDotTitle)>>, <<t, st, sx, raw, sd>>) :
     t \in {JUndef, Str("Bonjour")},
     st \in {JUndef, Str("SEO Bonjour")},
     sx \in {JUndef, JNull, Str("X fr")},
     raw \in {JUndef, Str("X brut")},
     sd \in {JUndef, Str("Point fr")}}

FieldsSourceComps ==
  {Obj2(N_seo, seo, N_meta, meta) :
     seo \in {JNull, Some(Obj2(N_title, Str("SEO Hello"), N_desc, JNull)),
              Some(Obj2(N_title, Str(""), N_desc, Str("Desc")))},
     meta \in {JNull, Some(Obj1(N_title, Str("Meta")))}}

FieldsInputs ==
  {Input("page", cfg, f, [success |-> JUndef, error |-> JUndef],
         DocOf("source", Obj1(N_title, t), sc), JNull, HeapOf("source", sc), NoProbe) :
     cfg \in FieldsConfigs, f \in FieldsBodies,
     t \in {JNull, Str(""), Str("Hello")}, sc \in FieldsSourceComps}
  \cup
  {Input("page", cfg, f, [success |-> JUndef, error |-> JUndef],
         JNull, JNull, <<>>, NoProbe) :
     cfg \in FieldsConfigs, f \in FieldsBodies}

\* the translate request reaching getContentForTranslation
GetContentForTranslation ==
  /\ call.phase = "received"
  /\ call' = [phase |-> "extracted", in |-> call.in,
              populate |-> componentsToPopulate(call.in.contentType,
                                                call.in.translatableFields),
              content |-> getContentForTranslation(call.in.contentType,
                                                   call.in.translatableFields,
                                                   call.in.source, call.in.heap)]
  /\ UNCHANGED <<trackerVars, dispatchVars, pollVars>>

InitFields ==
  /\ InitTracker
  /\ InitDispatch
  /\ InitPoll
  /\ \E in \in FieldsInputs : call = [phase |-> "received", in |-> in]

NextFields ==
  \/ GetContentForTranslation
  \/ StoreTranslation

SpecFields == InitFields /\ [][NextFields]_vars

\* ------------------------------------------------------------------------
\* The field-name conversion on a configured list: a configured spec is
\* encoded for the workflow (toDifyFieldName) and the key that comes back is
\* decoded against the list (fromDifyFieldName)
\* ------------------------------------------------------------------------
N_seo_title == <<"seo", "_", "title">>
P_seo_xY == <<"seo", "_", "x", ".", "y">>
P_seoX_y == <<"seo", ".", "x", "_", "y">>

FieldSpecs ==
  {N_title, N_seo_title, P_seoTitle, P_seoDesc, P_seoTitleX, P_seo_xY, P_seoX_y}

\* the configured lists: up to three different specs, in any order
FieldLists ==
  {q \in UNION {[1..n -> FieldSpecs] : n \in 1..3} :
     \A i, j \in 1..Len(q) : i # j => q[i] # q[j]}

\* one configured spec is encoded, as getContentForTranslation does for the
\* key it sends
Encode ==
  /\ call.phase = "configured"
  /\ \E i \in 1..Len(call.fields) :
       call' = [phase |-> "encoded", fields |-> call.fields,
                spec |-> call.fields[i],
                key |-> toDifyFieldName(call.fields[i])]
  /\ UNCHANGED <<trackerVars, dispatchVars, pollVars>>

\* the key is decoded, as storeTranslation does for the key it receives
Decode ==
  /\ call.phase = "encoded"
  /\ call' = [phase |-> "decoded", fields |-> call.fields, spec |-> call.spec,
              key |-> call.key,
              path |-> fromDifyFieldName(call.key, call.fields)]
  /\ UNCHANGED <<trackerVars, dispatchVars, pollVars>>

InitNames ==
  /\ InitTracker
  /\ InitDispatch
  /\ InitPoll
  /\ \E fields \in FieldLists : call = [phase |-> "configured", fields |-> fields]

NextNames ==
  \/ Encode
  \/ Decode

SpecNames == InitNames /\ [][NextNames]_vars

\* ------------------------------------------------------------------------
\* Properties of the field-name conversion
\* ------------------------------------------------------------------------
\* C21: every configured nested spec survives the round trip: decoding its
\* encoded key against the configured list gives the spec back, whatever
\* else the list contains.
C21_NestedRoundTrip ==
  (call.phase = "decoded" /\ isNestedField(call.spec)) => call.path = call.spec

\* ------------------------------------------------------------------------
\* The polling session of the admin panel (startProgressPolling): interval
\* ticks, poll requests in flight, the client-side timeout and the stop
\* function.  The session is held in call: log is the job's event list on
\* the server (event types, the index being the position), inflight the
\* requests sent and not yet answered.
\* ------------------------------------------------------------------------
TerminalTypes == {"completed", "error"}

Session ==
  [phase |-> "polling", stopped |-> FALSE, pollInterval |-> TRUE, timeout |-> "armed",
   lastEventIndex |-> 0, inflight |-> <<>>, log |-> <<"started">>,
   ended |-> FALSE, completes |-> 0, late |-> FALSE]

Max2(a, b) == IF a >= b THEN a ELSE b          \* Math.max
LogEvents(log) == [k \in 1..Len(log) |-> [index |-> k - 1, type |-> log[k]]]
RemoveAt(q, i) == SubSeq(q, 1, i - 1) \o SubSeq(q, i + 1, Len(q))

\* the server appends an event to the job's list
ServerEvent ==
  /\ call.phase = "polling"
  /\ Len(call.log) < MaxLog
  /\ \A i \in 1..Len(call.log) : call.log[i] \notin TerminalTypes
  /\ \E type \in {"node_started", "completed", "error"} :
       call' = [call EXCEPT !.log = Append(@, type)]
  /\ UNCHANGED <<trackerVars, dispatchVars, pollVars>>

\* poll(), called once at the start and then by the interval: nothing when
\* stopped, else a request with the current lastEventIndex
Poll ==
  /\ call.phase = "polling"
  /\ call.pollInterval
  /\ ~call.stopped
  /\ Len(call.inflight) < MaxInFlight
  /\ call' = [call EXCEPT !.inflight =
                 Append(@, [since |-> call.lastEventIndex, served |-> FALSE, events |-> <<>>])]
  /\ UNCHANGED <<trackerVars, dispatchVars, pollVars>>

\* the server answers a request with the events of index >= since
Serve ==
  /\ call.phase = "polling"
  /\ \E i \in 1..Len(call.inflight) :
       /\ ~call.inflight[i].served
       /\ call' = [call EXCEPT !.inflight[i] =
                      [since |-> call.inflight[i].since, served |-> TRUE,
                       events |-> SelectSeq(LogEvents(call.log), LAMBDA event :
                                    event.index >= call.inflight[i].since)]]
  /\ UNCHANGED <<trackerVars, dispatchVars, pollVars>>

\* the loop over data.events of one response, up to its return: st is the
\* session, every onProgress or onComplete after the session has ended is
\* recorded in late
RECURSIVE handleEvents(_, _)
handleEvents(st, events) ==
  IF events = <<>> THEN st
  ELSE LET event == Head(events)
           seen == [st EXCEPT !.lastEventIndex = Max2(@, event.index + 1),
                              !.late = @ \/ st.ended]
       IN IF event.type \in TerminalTypes
            THEN [seen EXCEPT !.stopped = TRUE, !.pollInterval = FALSE,
                              !.completes = @ + 1, !.ended = TRUE]
            ELSE handleEvents(seen, Tail(events))

\* a response arrives and the rest of poll() runs
Deliver ==
  /\ call.phase = "polling"
  /\ \E i \in 1..Len(call.inflight) :
       /\ call.inflight[i].served
       /\ call' = handleEvents([call EXCEPT !.inflight = RemoveAt(@, i)],
                               call.inflight[i].events)
  /\ UNCHANGED <<trackerVars, dispatchVars, pollVars>>

\* a request fails: the catch block ignores it
Reject ==
  /\ call.phase = "polling"
  /\ \E i \in 1..Len(call.inflight) :
       call' = [call EXCEPT !.inflight = RemoveAt(@, i)]
  /\ UNCHANGED <<trackerVars, dispatchVars, pollVars>>

\* the setTimeout callback after 5 minutes
SessionTimeout ==
  /\ call.phase = "polling"
  /\ call.timeout = "armed"
  /\ call' = IF ~call.stopped
               THEN [call EXCEPT !.timeout = "fired", !.stopped = TRUE,
                                 !.pollInterval = FALSE, !.completes = @ + 1,
                                 !.late = @ \/ call.ended, !.ended = TRUE]
               ELSE [call EXCEPT !.timeout = "fired"]
  /\ UNCHANGED <<trackerVars, dispatchVars, pollVars>>

\* the function startProgressPolling returns, called by its owner
StopPolling ==
  /\ call.phase = "polling"
  /\ ~call.ended
  /\ call' = [call EXCEPT !.stopped = TRUE, !.pollInterval = FALSE,
                          !.timeout = IF @ = "armed" THEN "cleared" ELSE @,
                          !.ended = TRUE]
  /\ UNCHANGED <<trackerVars, dispatchVars, pollVars>>

InitSession ==
  /\ InitTracker
  /\ InitDispatch
  /\ InitPoll
  /\ call = Session

NextSession ==
  \/ ServerEvent
  \/ Poll
  \/ Serve
  \/ Deliver
  \/ Reject
  \/ SessionTimeout
  \/ StopPolling

SpecSession == InitSession /\ [][NextSession]_vars

\* ------------------------------------------------------------------------
\* Properties of the stream events
\* ------------------------------------------------------------------------
\* the lines of a body that end with a newline (the rest is never processed)
CompleteLines(body) == LET parts == split(body) IN SubSeq(parts, 1, Len(parts) - 1)

IsEventLine(line) == startsWith(line, "event:")
IsDataLine(line) == startsWith(line, "data:")

\* the event: lines before line k that no data: line has consumed
PendingEventLines(lines, k) ==
  {i \in 1..(k - 1) :
     /\ IsEventLine(lines[i])
     /\ \A m \in (i + 1)..(k - 1) : ~IsDataLine(lines[m])}

Latest(S) == CHOOSE i \in S : \A m \in S : m <= i

\* the type of the data: line k: the value of the most recent pending event:
\* line, else the event field of the data, else unknown
ResolvedType(lines, k) ==
  LET pending == PendingEventLines(lines, k)
      named == IF pending = {} THEN "" ELSE AfterPrefix(lines[Latest(pending)])
      eventData == JSONparse(AfterPrefix(lines[k]))
  IN IF named # "" THEN named
     ELSE IF eventData.event # "" THEN eventData.event
     ELSE "unknown"

\* the registry after every data: line that parses has been dispatched under
\* its resolved type, from line k on
RECURSIVE DispatchResolved(_, _, _, _)
DispatchResolved(reg, jobId, lines, k) ==
  IF k > Len(lines) THEN reg
  ELSE IF IsDataLine(lines[k]) /\ AfterPrefix(lines[k]) \in JsonTexts
    THEN DispatchResolved(dispatchEvent(reg, jobId, ResolvedType(lines, k),
                                        JSONparse(AfterPrefix(lines[k]))),
                          jobId, lines, k + 1)
  ELSE DispatchResolved(reg, jobId, lines, k + 1)

\* C26: the type of a data: line is the value of the most recent event: line
\* not yet consumed by a data: line, else the event field of the data; an
\* event: line applies to the next data: line and to no later one.  Stated
\* on the job at the end of the stream: its events and status are those of
\* dispatching every data: line under the type so resolved.
C26_TypeFromPendingEventLine ==
  (pc = "done" /\ outcome = "stream_end" /\ curJob \in DOMAIN activeJobs)
    => LET job == activeJobs[curJob]
           fresh == startJob([jobs |-> <<>>, timers |-> [j \in JobIds |-> 0]],
                             curJob, job.targetLocales)
           ref == DispatchResolved(fresh, curJob, CompleteLines(stream), 1).jobs[curJob]
       IN job.events = ref.events /\ job.status = ref.status

\* the data: lines of a read that are dispatched, and the last of them
Dispatched(lines) ==
  {k \in 1..Len(lines) : IsDataLine(lines[k]) /\ AfterPrefix(lines[k]) \in JsonTexts}
LastData(lines) == JSONparse(AfterPrefix(lines[Latest(Dispatched(lines))]))

\* the job as the lines before the last dispatched one leave it
JobBefore(lines) ==
  DispatchResolved(Registry, curJob,
                   SubSeq(lines, 1, Latest(Dispatched(lines)) - 1), 1).jobs[curJob]

LastEvent(job) == job.events[Len(job.events)]
OneMoreEvent(before, after) ==
  /\ Len(after.events) = Len(before.events) + 1
  /\ SubSeq(after.events, 1, Len(before.events)) = before.events

\* the lines a read completes: those of the buffered text and the new chunk
LinesOfRead == CompleteLines(buffer \o SubSeq(stream, pos + 1, pos'))

IsInvalidData(line) ==
  IsDataLine(line) /\ AfterPrefix(line) # "" /\ AfterPrefix(line) \notin JsonTexts

\* C27: a data: line whose payload is not valid JSON changes neither the
\* status, the completed-locale counter nor the event list, and the lines
\* after it are still processed: every read leaves the registry that
\* dispatching the parsable data: lines of that read, and only them, gives.
C27_InvalidJsonSkipped ==
  [][(pc = "reading" /\ pos' > pos) =>
       LET ref == DispatchResolved(Registry, curJob, LinesOfRead, 1)
       IN activeJobs' = ref.jobs /\ timers' = ref.timers]_vars

\* a stream whose first data: line did not parse and whose second one was recorded
C27_Witness ==
  /\ pc = "done"
  /\ outcome = "stream_end"
  /\ stream = <<"data:", "not json", NL, "data:", "{node_started llm}", NL>>
  /\ curJob \in DOMAIN activeJobs
  /\ activeJobs[curJob].status = "running"
  /\ Len(activeJobs[curJob].events) = 2
  /\ activeJobs[curJob].events[2].type = "node_started"

\* a read of lines the last dispatched of which has the given type, for a
\* job that is registered
ReadEndsWith(type) ==
  /\ pc = "reading"
  /\ pos' > pos
  /\ curJob \in DOMAIN activeJobs
  /\ Dispatched(LinesOfRead) # {}
  /\ ResolvedType(LinesOfRead, Latest(Dispatched(LinesOfRead))) = type

\* a read ending with a workflow_finished event
WorkflowFinishedMarksJob ==
  ReadEndsWith("workflow_finished") =>
    LET jobAfter == activeJobs'[curJob]
        status == LastData(LinesOfRead).status
    IN /\ OneMoreEvent(JobBefore(LinesOfRead), jobAfter)
       /\ IF status = "succeeded"
            THEN jobAfter.status = "completed" /\ LastEvent(jobAfter).type = "completed"
            ELSE /\ jobAfter.status = "error"
                 /\ LastEvent(jobAfter).type = "error"
                 /\ LastEvent(jobAfter).message = <<"Workflow status", status>>

\* a read ending with an error event
ErrorEventMarksJob ==
  ReadEndsWith("error") =>
    LET jobAfter == activeJobs'[curJob]
        message == LastData(LinesOfRead).message
    IN /\ OneMoreEvent(JobBefore(LinesOfRead), jobAfter)
       /\ jobAfter.status = "error"
       /\ LastEvent(jobAfter).type = "error"
       /\ message # <<>> => LastEvent(jobAfter).message = message

\* C28: a workflow_finished event marks the job completed, with a completed
\* event, if and only if the embedded status is "succeeded", otherwise error
\* with an error event whose message embeds the status; an error event marks
\* the job error with the reported message.
C28_TerminalEventsMarkJob ==
  [][WorkflowFinishedMarksJob /\ ErrorEventMarksJob]_vars

\* a stream that ended with a workflow_finished event of status failed
C28_Witness ==
  /\ pc = "done"
  /\ outcome = "stream_end"
  /\ stream = <<"data:", "{error boom}", NL, "data:", "{workflow_finished failed}", NL>>
  /\ curJob \in DOMAIN activeJobs
  /\ activeJobs[curJob].status = "error"
  /\ Len(activeJobs[curJob].events) = 3
  /\ activeJobs[curJob].events[2].message = <<"boom">>
  /\ activeJobs[curJob].events[3].message = <<"Workflow status", "failed">>

\* the node the workflow saves a translation with
IsSaveNode(data) ==
  data.node_type = S_httpRequest /\ includes(toLowerCase(data.title), S_strapi)

\* C29: a node_finished event of the save node raises the completed-locale
\* counter by one and appends one node_finished event with the message
\* "Saved translation (k/n)", k the new counter and n the total; any other
\* node_finished event leaves the counter and the event list unchanged.
C29_SavedLocaleCounted ==
  [][ReadEndsWith("node_finished") =>
       LET jobBefore == JobBefore(LinesOfRead)
           jobAfter == activeJobs'[curJob]
       IN IF IsSaveNode(LastData(LinesOfRead))
            THEN /\ jobAfter.completedLocales = jobBefore.completedLocales + 1
                 /\ OneMoreEvent(jobBefore, jobAfter)
                 /\ LastEvent(jobAfter).type = "node_finished"
                 /\ LastEvent(jobAfter).message =
                      <<"Saved translation", jobAfter.completedLocales, jobAfter.totalLocales>>
            ELSE /\ jobAfter.completedLocales = jobBefore.completedLocales
                 /\ jobAfter.events = jobBefore.events]_vars

\* two saved locales have been counted
C29_Witness ==
  /\ pc = "done"
  /\ outcome = "stream_end"
  /\ curJob \in DOMAIN activeJobs
  /\ activeJobs[curJob].completedLocales = 2
  /\ Len(activeJobs[curJob].events) = 3
  /\ activeJobs[curJob].events[3].message =
       <<"Saved translation", 2, activeJobs[curJob].totalLocales>>

\* out is name in Title Case with the underscores replaced by spaces: the
\* first letter of every word is a capital, the other characters are kept
IsTitleCaseOf(out, name) ==
  /\ Len(out) = Len(name)
  /\ \A i \in 1..Len(name) :
       out[i] = IF name[i] = "_" THEN " "
                ELSE IF i = 1 \/ name[i - 1] \in {"_", " ", "-"} THEN upperChar(name[i])
                ELSE name[i]

\* the title of the node, or its type when the title is empty
NodeLabel(data) ==
  IF data.title # <<>> THEN data.title
  ELSE IF data.node_type # <<>> THEN data.node_type
  ELSE S_unknown

\* the read appended one node_started event named after the node
NodeStartedLogged ==
  LET jobAfter == activeJobs'[curJob]
  IN /\ OneMoreEvent(JobBefore(LinesOfRead), jobAfter)
     /\ LastEvent(jobAfter).type = "node_started"
     /\ LastEvent(jobAfter).message = LastEvent(jobAfter).nodeName
     /\ IsTitleCaseOf(LastEvent(jobAfter).message, NodeLabel(LastData(LinesOfRead)))

\* C30 as stated: every node_started event received for a registered job
\* appends exactly one node_started progress event whose message and node
\* name are the node's title (or its type when the title is empty) in Title
\* Case with underscores replaced by spaces.
C30_NodeStartedLogged ==
  [][ReadEndsWith("node_started") => NodeStartedLogged]_vars

\* C30, amended: this holds of every node_started event whose node type is
\* neither start nor end; one of type start or end appends no event.
C30_SignificantNodeStartedLogged ==
  [][ReadEndsWith("node_started") =>
       IF LastData(LinesOfRead).node_type \in {S_start, S_end}
         THEN activeJobs'[curJob].events = JobBefore(LinesOfRead).events
         ELSE NodeStartedLogged]_vars

\* a stream with the start node and an untitled llm node has been read: the
\* second one alone is logged, under its type
C30_Witness ==
  /\ pc = "done"
  /\ outcome = "stream_end"
  /\ stream = <<"data:", "{node_started start}", NL, "data:", "{node_started untitled}", NL>>
  /\ curJob \in DOMAIN activeJobs
  /\ Len(activeJobs[curJob].events) = 2
  /\ activeJobs[curJob].events[2].type = "node_started"
  /\ activeJobs[curJob].events[2].message = <<"L", "l", "m">>

\* the types the switch of the stream loop has a case for
HandledTypes == {"node_started", "node_finished", "workflow_finished", "error"}

\* the dispatched data: lines of a read whose type is none of them
Unhandled(lines) ==
  {k \in Dispatched(lines) : ResolvedType(lines, k) \notin HandledTypes}

\* the lines of a read with every such data: line emptied
WithoutUnhandled(read) ==
  LET unhandled == Unhandled(read)
  IN [k \in 1..Len(read) |-> IF k \in unhandled THEN <<"data:">> ELSE read[k]]

\* C31: a stream event whose type is none of node_started, node_finished,
\* workflow_finished and error leaves the status, the counter and the event
\* list of the job unchanged and does not stop the processing of the stream:
\* every read leaves the registry that the same lines give without the
\* events of other types, the lines after them included.
C31_UnhandledEventIgnored ==
  [][(pc = "reading" /\ pos' > pos /\ curJob \in DOMAIN activeJobs) =>
       \A lines \in {WithoutUnhandled(LinesOfRead)} :
         \A ref \in {DispatchResolved(Registry, curJob, lines, 1)} :
           activeJobs' = ref.jobs /\ timers' = ref.timers]_vars

\* a stream whose first event had no type and whose second one was recorded
C31_Witness ==
  /\ pc = "done"
  /\ outcome = "stream_end"
  /\ stream = <<"data:", "{status succeeded}", NL, "data:", "{node_started llm}", NL>>
  /\ curJob \in DOMAIN activeJobs
  /\ activeJobs[curJob].status = "running"
  /\ activeJobs[curJob].completedLocales = 0
  /\ Len(activeJobs[curJob].events) = 2
  /\ activeJobs[curJob].events[2].type = "node_started"

\* C34: after a terminal progress event (completed or error) has been
\* appended to a job no further event is appended to it: in every state the
\* terminal event is the last event of the job's list and the only terminal
\* one, whatever stream events and completion calls follow.
C34_TerminalEventIsLast ==
  \A j \in DOMAIN activeJobs :
    LET events == activeJobs[j].events
    IN \A i \in 1..Len(events) : events[i].type \in Terminal => i = Len(events)

\* C35: in every state of a job 0 <= completedLocales <= totalLocales, and
\* the current counter of every progress event is at most its total,
\* whatever stream events have been received.
C35_CounterWithinTotal ==
  \A j \in DOMAIN activeJobs :
    LET job == activeJobs[j]
    IN /\ 0 <= job.completedLocales
       /\ job.completedLocales <= job.totalLocales
       /\ \A i \in 1..Len(job.events) : job.events[i].current <= job.events[i].total

\* the step returns the acknowledgment of a request
Acknowledges == ack'.kind = "returned" /\ ack.kind # "returned"

\* the step hands a stream event or a failure of the request to the tracker
ProcessesEvent == pc = "reading" /\ pos' > pos /\ Dispatched(LinesOfRead) # {}
ProcessesFailure ==
  pc \in {"fetching", "reading"}
    /\ outcome' \in {"not_ok", "no_body", "rejected", "stream_error"}

\* the job of the acknowledgment is registered with its started event alone,
\* and the request has not been answered yet
RegisteredAtReturn ==
  /\ ack'.jobId \in DOMAIN activeJobs'
  /\ Len(activeJobs'[ack'.jobId].events) = 1
  /\ activeJobs'[ack'.jobId].events[1].type = "started"
  /\ activeJobs'[ack'.jobId].status = "running"
  /\ curJob' = ack'.jobId
  /\ pc' = "fetching"

\* C39 as stated: when sendToTranslation returns an acknowledgment carrying
\* job id j, job j is registered with its started event, and the
\* registration comes before the outbound request starts, so that no stream
\* event and no failure of that request is ever processed against a job
\* that is not registered.
C39_RegisteredBeforeDispatch ==
  [][(Acknowledges => RegisteredAtReturn)
       /\ ((ProcessesEvent \/ ProcessesFailure) => curJob \in DOMAIN activeJobs)]_vars

\* the job of the dispatch leaves the registry only through its timer, which
\* a terminal event has set
RemovedByTimerOnly ==
  (curJob \in DOMAIN activeJobs /\ curJob \notin DOMAIN activeJobs') =>
    /\ activeJobs[curJob].status \in Terminal
    /\ timers[curJob] > 0
    /\ pc' = pc /\ pos' = pos

\* a read or a failure of the request after that removal changes nothing
LateEventIsNoOp ==
  (curJob \notin DOMAIN activeJobs /\ pc \in {"fetching", "reading"} /\ (pos' > pos \/ pc' = "done")) =>
    /\ curJob \in usedIds
    /\ ack.jobId = curJob
    /\ activeJobs' = activeJobs
    /\ timers' = timers

\* C39, amended: the job of an acknowledgment is registered with its started
\* event before the outbound request starts and stays registered while the
\* request is pending, so no stream event and no failure of the request is
\* processed against a job that has not been registered; one that arrives
\* after the eviction timer of a terminal event has removed the job is
\* processed against the unregistered id and changes nothing.
C39_RegisteredUntilEvicted ==
  [][(Acknowledges => RegisteredAtReturn)
       /\ (pc = "fetching" => curJob \in DOMAIN activeJobs)
       /\ RemovedByTimerOnly
       /\ LateEventIsNoOp]_vars

\* the stream stayed open after its workflow_finished event until the job
\* had been removed, and then failed: the failure found no job
C39_Witness ==
  /\ pc = "done"
  /\ outcome = "stream_error"
  /\ ack.kind = "returned"
  /\ ack.jobId = curJob
  /\ stream = <<"data:", "{workflow_finished succeeded}", NL>>
  /\ pos = Len(stream)
  /\ curJob \notin DOMAIN activeJobs
  /\ timers[curJob] = 0

\* the dispatch with every step of the detached request taken in the end:
\* a pending promise is settled and a readable stream is read
SpecLive == Spec /\ WF_vars(Next)

\* the .then/.catch chain of the request has run to its end
DispatchFinished == pc = "done"

\* C33: every job started by sendToTranslation reaches a terminal status
\* (completed or error) once its background dispatch has finished, i.e.
\* once the request has failed or the response stream has been read to its
\* end, also when the stream ends without a workflow_finished or error
\* event or with a last line that has no newline.  (A job that is no
\* longer registered was terminal when its timer removed it.)
C33_JobEventuallyTerminal ==
  DispatchFinished ~>
    (curJob \in DOMAIN activeJobs => activeJobs[curJob].status \in Terminal)

\* ------------------------------------------------------------------------
\* Properties of the polling session
\* ------------------------------------------------------------------------
\* C24: a polling session ends exactly once: after a terminal event has
\* been seen, the timeout has fired or the stop function has been called,
\* no onProgress or onComplete is delivered, and onComplete is invoked at
\* most once.
C24_SessionEndsOnce ==
  call.phase = "polling" => (call.completes <= 1 /\ ~call.late)

\* ------------------------------------------------------------------------
\* The runId-keyed callback (server/src/services/translation.ts,
\* storeTranslation): callbacks are handled concurrently, each handler
\* giving way to the others at its awaits.  The state is held in call:
\* processedRuns is the module-level Map (its keys, in insertion order),
\* handlers the calls that have passed the idempotency test and not yet
\* returned, updates the number of document-store updates performed for
\* each runId.
\* ------------------------------------------------------------------------
RunIds == {"r1", "r2"}
KeptRuns == 1000

\* `${documentId}-${contentType}-${locale}-${runId}`
runKey(documentId, contentType, locale, runId) ==
  <<documentId, "-", contentType, "-", locale, "-", runId>>

RunsStart ==
  [phase |-> "runs", processedRuns |-> <<>>, handlers |-> <<>>,
   updates |-> [r \in RunIds |-> 0], arrived |-> 0, repeated |-> {}]

\* a callback arrives: the code of storeTranslation up to its first await.
\* valid tells whether the body has a translatable field.
CallbackArrives(runId, valid) ==
  /\ call.phase = "runs"
  /\ call.arrived < MaxCallbacks
  /\ LET key == runKey("doc1", "page", "fr", runId)
     IN IF Contains(call.processedRuns, key)
          THEN call' = [call EXCEPT !.arrived = @ + 1, !.repeated = @ \cup {runId}]
          ELSE call' = [call EXCEPT !.arrived = @ + 1,
                          !.handlers = Append(@, [runId |-> runId, key |-> key,
                                                  valid |-> valid, at |-> "validating"])]
  /\ UNCHANGED <<trackerVars, dispatchVars, pollVars>>

\* getTranslatableFields has resolved: the body is filtered, and the call
\* raises when no field is left, else it reads the existing entry
Validate ==
  /\ call.phase = "runs"
  /\ \E i \in 1..Len(call.handlers) :
       /\ call.handlers[i].at = "validating"
       /\ call' = IF call.handlers[i].valid
                    THEN [call EXCEPT !.handlers[i].at = "updating"]
                    ELSE [call EXCEPT !.handlers = RemoveAt(@, i)]
  /\ UNCHANGED <<trackerVars, dispatchVars, pollVars>>

\* the document store performs the update (or rejects it)
StoreUpdate ==
  /\ call.phase = "runs"
  /\ \E i \in 1..Len(call.handlers) :
       /\ call.handlers[i].at = "updating"
       /\ \/ call' = [call EXCEPT !.handlers[i].at = "updated",
                                   !.updates[call.handlers[i].runId] = @ + 1]
          \/ call' = [call EXCEPT !.handlers = RemoveAt(@, i)]
  /\ UNCHANGED <<trackerVars, dispatchVars, pollVars>>

\* the rest of storeTranslation once the update has resolved: the run is
\* recorded, the oldest records beyond KeptRuns are deleted, success is returned
RecordRun ==
  /\ call.phase = "runs"
  /\ \E i \in 1..Len(call.handlers) :
       /\ call.handlers[i].at = "updated"
       /\ LET key == call.handlers[i].key
              set == IF Contains(call.processedRuns, key)
                       THEN call.processedRuns
                       ELSE Append(call.processedRuns, key)
              kept == IF Len(set) > KeptRuns
                        THEN SubSeq(set, Len(set) - KeptRuns + 1, Len(set))
                        ELSE set
          IN call' = [call EXCEPT !.processedRuns = kept,
                                  !.handlers = RemoveAt(@, i)]
  /\ UNCHANGED <<trackerVars, dispatchVars, pollVars>>

InitRuns ==
  /\ InitTracker
  /\ InitDispatch
  /\ InitPoll
  /\ call = RunsStart

NextRuns ==
  \/ \E runId \in RunIds, valid \in BOOLEAN : CallbackArrives(runId, valid)
  \/ Validate
  \/ StoreUpdate
  \/ RecordRun

SpecRuns == InitRuns /\ [][NextRuns]_vars

\* ------------------------------------------------------------------------
\* Properties of the runId-keyed callback
\* ------------------------------------------------------------------------
\* C25: for one (documentId, contentType, locale, runId) at most one
\* document-store update is performed, over every sequence and interleaving
\* of callbacks carrying that key.
C25_AtMostOneUpdatePerRun ==
  call.phase = "runs" => \A r \in RunIds : call.updates[r] <= 1

\* ------------------------------------------------------------------------
\* Properties of extraction and merge under one configuration
\* ------------------------------------------------------------------------
\* a spec with more than one dot
IsDeep(spec) == Len(splitDots(spec)) > 2
HasDeep(translatableFields) ==
  \E i \in 1..Len(translatableFields) : IsDeep(translatableFields[i])
WithoutDeep(translatableFields) ==
  SelectSeq(translatableFields, LAMBDA spec : ~IsDeep(spec))

\* the request without the longer specs and without the callback keys that
\* decode to them; when no other spec is configured, the request with the
\* same configuration and nothing translated
Shallow(in) ==
  IF WithoutDeep(in.translatableFields) = <<>>
    THEN [in EXCEPT !.fields = <<>>]
    ELSE [in EXCEPT !.translatableFields = WithoutDeep(in.translatableFields),
                    !.fields = SelectSeq(in.fields, LAMBDA e :
                                 ~IsDeep(fromDifyFieldName(e.key, in.translatableFields)))]

\* C22: a configured spec with more than one dot is ignored: extraction
\* populates no component and sends no key for it and raises only what it
\* raises without it, and the merge writes, reads and answers what it does
\* without the spec and without its callback key.
C22_DeepSpecIgnored ==
  (call.phase # "received" /\ HasDeep(call.in.translatableFields)) =>
    LET in == call.in
        rest == WithoutDeep(in.translatableFields)
    IN /\ call.phase = "extracted" =>
            /\ call.populate = componentsToPopulate(in.contentType, rest)
            /\ \A i \in 1..Len(call.content.fields) :
                 \A k \in 1..Len(in.translatableFields) :
                   IsDeep(in.translatableFields[k]) =>
                     call.content.fields[i].key # toDifyFieldName(in.translatableFields[k])
            /\ IF rest = <<>>
                 THEN call.content =
                        IF in.source = JNull
                          THEN ContentThrown(<<"Document not found for locale", SourceLocale>>)
                          ELSE ContentFields(<<>>)
                 ELSE call.content =
                        getContentForTranslation(in.contentType, rest, in.source, in.heap)
       /\ call.phase = "done" => call.out = storeTranslation(Shallow(in))

\* a callback carrying the encoded key of a longer spec has been stored
C22_Witness ==
  /\ call.phase = "done"
  /\ Contains(call.in.translatableFields, P_seoTitleX)
  /\ \E i \in 1..Len(call.in.fields) :
       /\ call.in.fields[i].key = toDifyFieldName(P_seoTitleX)
       /\ call.in.fields[i].value = Str("X fr")
  /\ Len(call.out.updates) = 1

\* a spec the schema knows: a plain attribute, or a field of a component attribute
SchemaValid(contentType, spec) ==
  IF isNestedField(spec)
    THEN /\ parseNestedField(spec).ok
         /\ fieldExistsInSchema(contentType, parseNestedField(spec).component)
    ELSE fieldExistsInSchema(contentType, spec)

\* the value of a spec in the source document as the request fetched it
SourceValue(in, spec) ==
  LET document == findOne(in.contentType, in.source,
                          componentsToPopulate(in.contentType, in.translatableFields)).doc
  IN IF isNestedField(spec) THEN getNestedValue(document, in.heap, spec)
     ELSE Get(document, spec)

IsEmptyValue(value) == value = JUndef \/ value = JNull \/ value = Str("")

\* C23: the field map of getContentForTranslation has no key whose value is
\* undefined, null or the empty string, and it has the key of every
\* configured spec the schema knows whose source value is none of these.
C23_NoEmptyFieldSent ==
  (call.phase = "extracted" /\ call.content.kind = "fields") =>
    /\ \A i \in 1..Len(call.content.fields) : ~IsEmptyValue(call.content.fields[i].value)
    /\ \A k \in 1..Len(call.in.translatableFields) :
         LET spec == call.in.translatableFields[k]
         IN (SchemaValid(call.in.contentType, spec)
               /\ ~IsEmptyValue(SourceValue(call.in, spec))) =>
              HasKey(call.content.fields, toDifyFieldName(spec))

\* a document with an empty seo.title and a filled seo.desc has been extracted
C23_Witness ==
  /\ call.phase = "extracted"
  /\ call.content.kind = "fields"
  /\ Contains(call.in.translatableFields, P_seoTitle)
  /\ SourceValue(call.in, P_seoTitle) = Str("")
  /\ SourceValue(call.in, N_title) = JNull
  /\ HasKey(call.content.fields, toDifyFieldName(P_seoDesc))
  /\ ~HasKey(call.content.fields, toDifyFieldName(P_seoTitle))
  /\ ~HasKey(call.content.fields, N_title)

====
